---- MODULE Spec2Model ----
(***************************************************************************)
(* Model of the Torch-TensorRT dynamo compile path:                        *)
(*   backend/backends.py            _pretraced_backend (compile driver)    *)
(*   lowering/_repair_input_aliasing.py, lowering/passes/*                 *)
(*   conversion/_TRTInterpreter.py  TRTInterpreter (graph interpreter)     *)
(*   conversion/aten_ops_converters.py  validators, aten_ops_div           *)
(*   conversion/converter_utils.py  casts, broadcastable                   *)
(*                                                                         *)
(* An FX graph is a sequence of nodes in graph order.  A node refers to    *)
(* its argument nodes by name; the argument 0 stands for a literal that is *)
(* not a node.  Graph modules are mutable objects: mods maps a module      *)
(* identity to the graph it currently holds, and the driver's local        *)
(* variable gm holds a module identity.                                    *)
(***************************************************************************)
EXTENDS Integers, Sequences, FiniteSets, TLC

VARIABLES
    caller,     \* who runs: "driver" (_pretraced_backend), "direct"/"shapes"/"outputs"/"validators" (TRTInterpreter on its own), "div"/"broadcastable" (utilities)
    pc,         \* position in the driver / in TRTInterpreter.run
    passThrough,\* settings.pass_through_build_failures
    given,      \* the graph of the module as the caller passed it in (never changes)
    samples,    \* sample_inputs of the driver: one (shape, dtype) per placeholder
    gm,         \* the driver's local variable gm: identity of the module it is bound to
    mods,       \* module identity -> graph currently held by that module
    passes,     \* ATEN_LOWERING_PASSES: the registered lowering passes, in the order they run
    log,        \* history: the steps started so far, in order, with their outcome
    it,         \* the TRTInterpreter instance (its fields)
    net,        \* the TensorRT network under construction
    env,        \* torch.fx.Interpreter.env: node name -> index of its tensor in net.tensors (0: not a tensor)
    injected,   \* names of the nodes whose kwargs hold the key "_itensor_to_tensor_meta"
    ip,         \* number of nodes of the graph already run by torch.fx.Interpreter.run
    bld,        \* the builder side: config created, profiles added, build_engine calls, engine
    result,     \* terminal outcome of the invocation
    callargs    \* arguments of the call in progress: of run(), or of the utility function called

vars ==
    <<caller, pc, passThrough, given, samples, gm, mods, passes, log, it, net, env, injected,
      ip, bld, result, callargs>>

(***************************************************************************)
(* Bounds of the model.                                                    *)
(***************************************************************************)
MaxPlaceholders == 2
MaxCalls == 1
MaxRank == 2
MaxDim == 2
MaxOutputs == 2
MaxUtilityCalls == 2
MaxChain == 3

None == "None"

(***************************************************************************)
(* FX graphs.                                                              *)
(***************************************************************************)
CloneTarget == "aten.clone.default"

PlaceholderNode(i) ==
    [name |-> i, op |-> "placeholder", target |-> "x" \o ToString(i), args |-> <<>>]

CallNode(nm, kind, a) ==
    [name |-> nm, op |-> kind[1], target |-> kind[2], args |-> a]

OutputNode(nm, a) ==
    [name |-> nm, op |-> "output", target |-> "output", args |-> a]

Names(g) == {g[i].name : i \in DOMAIN g}

IndexOf(g, nm) == CHOOSE i \in DOMAIN g : g[i].name = nm

NodeOf(g, nm) == g[IndexOf(g, nm)]

\* node.users: the nodes that take nm as an argument
Users(g, nm) == {g[i].name : i \in {j \in DOMAIN g : \E k \in DOMAIN g[j].args : g[j].args[k] = nm}}

Placeholders(g) == SelectSeq(g, LAMBDA n : n.op = "placeholder")

\* Node.replace_all_uses_with(new, delete_user_cb = user # except)
ReplaceAllUsesWith(g, old, new, except) ==
    [i \in DOMAIN g |->
        IF g[i].name = except
        THEN g[i]
        ELSE [g[i] EXCEPT !.args = [k \in DOMAIN @ |-> IF @[k] = old THEN new ELSE @[k]]]]

\* Graph.inserting_after(node) + Graph.call_function
InsertAfter(g, nm, node) ==
    LET i == IndexOf(g, nm)
    IN SubSeq(g, 1, i) \o <<node>> \o SubSeq(g, i + 1, Len(g))

\* Graph.erase_node
EraseNode(g, nm) == SelectSeq(g, LAMBDA n : n.name # nm)

\* Graph.call_function gives the node it creates a name no node of the graph has
FreshName(g) ==
    (CHOOSE m \in Names(g) \cup {0} : \A k \in Names(g) \cup {0} : m <= k) - 1

\* The clone repair_input_aliasing creates for placeholder p.
AliasClone(g, p) ==
    [name |-> FreshName(g), op |-> "call_function", target |-> CloneTarget, args |-> <<p>>]

RepairPlaceholderIfUsed(g, p) ==
    LET cloned_input == AliasClone(g, p)
    IN IF Users(g, p) = {} THEN g
       ELSE ReplaceAllUsesWith(InsertAfter(g, p, cloned_input), p, cloned_input.name,
                               cloned_input.name)

RepairPlaceholder(g, p) ==
    LET cloned_input == AliasClone(g, p)
    IN ReplaceAllUsesWith(InsertAfter(g, p, cloned_input), p, cloned_input.name,
                          cloned_input.name)

RECURSIVE RepairFrom(_, _)
RepairFrom(g, ps) ==
    IF ps = <<>> THEN g
    ELSE RepairFrom(RepairPlaceholder(g, Head(ps).name), Tail(ps))

\* repair_input_aliasing(gm): a clone directly after every placeholder
repair_input_aliasing(g) == RepairFrom(g, Placeholders(g))


(***************************************************************************)
(* Lowering passes.                                                        *)
(***************************************************************************)
\* Graph.eliminate_dead_code: call nodes nobody uses are erased, last first,
\* until none is left; placeholders and the output node are never erased.
Dead(g) ==
    {i \in DOMAIN g : /\ g[i].op \notin {"placeholder", "output"}
                      /\ Users(g, g[i].name) = {}}

RECURSIVE eliminate_dead_code(_)
eliminate_dead_code(g) ==
    IF Dead(g) = {} THEN g
    ELSE LET i == CHOOSE j \in Dead(g) : \A k \in Dead(g) : k <= j
         IN eliminate_dead_code(EraseNode(g, g[i].name))

\* clean_up_graph_after_modifications
clean_up_graph_after_modifications(g) == eliminate_dead_code(g)

OnlyUserIsCloneNotReturned(g, nm) ==
    /\ NodeOf(g, nm).op = "placeholder"
    /\ Cardinality(Users(g, nm)) = 1
    /\ \A u \in Users(g, nm) :
          /\ NodeOf(g, u).target = CloneTarget
          /\ \A v \in Users(g, u) : NodeOf(g, v).op # "output"

\* the condition of remove_input_alias_fixing_clones on one node
OnlyUserIsClone(g, nm) ==
    /\ NodeOf(g, nm).op = "placeholder"
    /\ Cardinality(Users(g, nm)) = 1
    /\ \A u \in Users(g, nm) : NodeOf(g, u).target = CloneTarget

RemoveClone(g, p) ==
    LET c == CHOOSE u \in Users(g, p) : TRUE
    IN EraseNode(ReplaceAllUsesWith(g, c, p, 0), c)

\* the loop of remove_input_alias_fixing_clones over the placeholders ps
RECURSIVE RemoveFrom(_, _)
RemoveFrom(g, ps) ==
    IF ps = <<>> THEN g
    ELSE LET p == Head(ps).name
         IN RemoveFrom(IF OnlyUserIsClone(g, p) THEN RemoveClone(g, p) ELSE g, Tail(ps))

remove_input_alias_fixing_clones_always_cleans(g) ==
    clean_up_graph_after_modifications(RemoveFrom(g, Placeholders(g)))

remove_input_alias_fixing_clones(g) ==
    LET modified_graph == \E i \in DOMAIN g : OnlyUserIsClone(g, g[i].name)
        h == RemoveFrom(g, Placeholders(g))
    IN IF modified_graph THEN clean_up_graph_after_modifications(h) ELSE h

\* a call node all of whose inputs ConstantFolder knows at compile time: each
\* is a literal or a get_attr node
Foldable(g, i) ==
    /\ g[i].op \in {"call_function", "call_method", "call_module"}
    /\ \A k \in DOMAIN g[i].args :
          g[i].args[k] = 0 \/ NodeOf(g, g[i].args[k]).op = "get_attr"

\* cf.run() + replace_node_with_constant: in graph order, a call node all of
\* whose inputs are constants becomes a get_attr node holding the value
RECURSIVE FoldFrom(_, _)
FoldFrom(g, i) ==
    IF i > Len(g) THEN g
    ELSE FoldFrom(IF Foldable(g, i)
                  THEN [g EXCEPT ![i] = [name |-> g[i].name, op |-> "get_attr",
                                         target |-> "_frozen_param", args |-> <<>>]]
                  ELSE g, i + 1)

\* constant_fold: fold, erase the get_attr nodes left without users, clean up
constant_fold(g) ==
    LET folded == FoldFrom(g, 1)
        erased == SelectSeq(folded,
                            LAMBDA n : ~(n.op = "get_attr" /\ Users(folded, n.name) = {}))
    IN clean_up_graph_after_modifications(erased)

\* the clone repair_input_as_output creates for placeholder p
OutputClone(g, p) ==
    [name |-> FreshName(g), op |-> "call_function", target |-> CloneTarget, args |-> <<p>>]

IsDirectOutput(g, p) == \E u \in Users(g, p) : NodeOf(g, u).op = "output"

RepairOutput(g, p) ==
    LET c == OutputClone(g, p)
        h == InsertAfter(g, p, c)
    IN [i \in DOMAIN h |->
          IF h[i].op = "output"
          THEN [h[i] EXCEPT !.args = [k \in DOMAIN @ |-> IF @[k] = p THEN c.name ELSE @[k]]]
          ELSE h[i]]

RECURSIVE RepairOutputFrom(_, _)
RepairOutputFrom(g, ps) ==
    IF ps = <<>> THEN g
    ELSE LET p == Head(ps).name
         IN RepairOutputFrom(IF IsDirectOutput(g, p) THEN RepairOutput(g, p) ELSE g, Tail(ps))

repair_input_as_output(g) ==
    LET modified_graph == \E i \in DOMAIN g : g[i].op = "placeholder" /\ IsDirectOutput(g, g[i].name)
        h == RepairOutputFrom(g, Placeholders(g))
    IN IF modified_graph THEN clean_up_graph_after_modifications(h) ELSE h

\* ATEN_LOWERING_PASSES as the module builds it
ATEN_LOWERING_PASSES ==
    <<"remove_input_alias_fixing_clones", "constant_fold", "repair_input_as_output">>

\* a pass a caller adds: it wraps the first value the graph returns in one
\* call of an operator of its own
UserPass(name, g) ==
    LET out == g[Len(g)]
        fresh == out.name + Len(g)
        wrapped == [out EXCEPT !.args = <<fresh>> \o Tail(@)]
    IN SubSeq(g, 1, Len(g) - 1)
         \o <<[name |-> fresh, op |-> "call_function", target |-> name,
               args |-> <<Head(out.args)>>], wrapped>>

\* PassManager.__call__: every pass of the list, in order, on the result of
\* the one before
RECURSIVE PassManagerCall(_, _)
PassManagerCall(ps, g) ==
    IF ps = <<>> THEN g
    ELSE LET name == Head(ps)
             out == CASE name = "remove_input_alias_fixing_clones" ->
                             remove_input_alias_fixing_clones(g)
                      [] name = "constant_fold" -> constant_fold(g)
                      [] name = "repair_input_as_output" -> repair_input_as_output(g)
                      [] OTHER -> UserPass(name, g)
         IN PassManagerCall(Tail(ps), out)

\* add_lowering_pass(lowering_pass): PassManager.add_pass appends
add_lowering_pass_first(ps, lowering_pass) == <<lowering_pass>> \o ps

add_lowering_pass(ps, lowering_pass) == Append(ps, lowering_pass)

\* apply_lowering_passes(gm): ATEN_LOWERING_PASSES(gm)
apply_lowering_passes(g) == PassManagerCall(passes, g)


(***************************************************************************)
(* Graph families the model explores.                                      *)
(***************************************************************************)
\* call nodes of a graph as dynamo hands it to the backend
TorchKinds ==
    { <<"call_function", "torch.relu">>,
      <<"call_method", "clone">>,
      <<"call_method", "nonzero">> }

\* call nodes of a graph handed to TRTInterpreter directly
InterpKinds ==
    { <<"call_function", "aten.relu.default">>,
      <<"call_function", "aten.clone.default">>,
      <<"call_function", "aten.nonzero.default">>,
      <<"call_method", "nonzero">>,
      <<"call_module", "lstm">> }

\* j call nodes after n placeholders, each taking one earlier node (or a literal)
RECURSIVE CallSeqs(_, _, _)
CallSeqs(n, j, kinds) ==
    IF j = 0 THEN {<<>>}
    ELSE {c \o <<CallNode(n + j, k, <<a>>)>> :
            c \in CallSeqs(n, j - 1, kinds), k \in kinds,
            a \in IF n + j - 1 = 0 THEN {0} ELSE 1..(n + j - 1)}

\* what the output node returns: one value, or the last node and one more
OutputArgs(k) ==
    {<<a>> : a \in 0..k} \cup {<<k, a>> : a \in 1..k}

\* placeholders, then call nodes, then the output node
Graphs(kinds) ==
    UNION {{[i \in 1..n |-> PlaceholderNode(i)] \o c \o <<OutputNode(n + m + 1, a)>> :
               c \in CallSeqs(n, m, kinds), a \in OutputArgs(n + m)} :
           n \in 0..MaxPlaceholders, m \in 0..MaxCalls}

(***************************************************************************)
(* Exceptions.                                                             *)
(***************************************************************************)
\* class UnsupportedOperatorException(RuntimeError)
IsInstance(e, cls) ==
    \/ e = cls
    \/ e = "UnsupportedOperatorException" /\ cls = "RuntimeError"

CaughtAnyException(e) == TRUE

\* except (AssertionError, RuntimeError)
Caught(e) == IsInstance(e, "AssertionError") \/ IsInstance(e, "RuntimeError")

\* what a step outside this repository may raise
ExternalFailures == {"AssertionError", "RuntimeError", "TypeError"}

NoResult == [kind |-> "none", module |-> None, exc |-> None, about |-> None]

Raised(e, about) == [kind |-> "raised", module |-> None, exc |-> e, about |-> about]

ExceptClauseIgnoringFlag(e, about, pass_through, cur) ==
    IF Caught(e)
    THEN [kind |-> "fallback", module |-> cur, exc |-> None, about |-> None]
    ELSE Raised(e, about)

\* the except clause of _pretraced_backend
ExceptClause(e, about, pass_through, cur) ==
    IF Caught(e)
    THEN IF ~pass_through
         THEN [kind |-> "fallback", module |-> cur, exc |-> None, about |-> None]
         ELSE Raised(e, about)
    ELSE Raised(e, about)

\* where an exception raised at this point ends up
Propagate(e, about) ==
    IF caller = "driver" THEN ExceptClause(e, about, passThrough, gm) ELSE Raised(e, about)

\* a log entry: the step, the node it ran (0: none), the exception it raised (None: none)
Entry(step, nm, exc) == [step |-> step, node |-> nm, exc |-> exc]

NextStepExportFirst(step) ==
    CASE step = "pre_aot_substitutions" -> "aot_export_joint_simple"
      [] step = "aot_export_joint_simple" -> "repair_input_aliasing"
      [] step = "repair_input_aliasing" -> "apply_lowering_passes"
      [] step = "apply_lowering_passes" -> "compile_module"
      [] step = "compile_module" -> "run"
      [] step = "run" -> "run_node"
      [] step = "run_node" -> "create_builder_config"
      [] step = "create_builder_config" -> "build_engine"
      [] step = "build_engine" -> "done"

\* the statement that follows a statement that returned, in _pretraced_backend
\* and in TRTInterpreter.run
NextStep(step) ==
    CASE step = "pre_aot_substitutions" -> "repair_input_aliasing"
      [] step = "repair_input_aliasing" -> "aot_export_joint_simple"
      [] step = "aot_export_joint_simple" -> "apply_lowering_passes"
      [] step = "apply_lowering_passes" -> "compile_module"
      [] step = "compile_module" -> "run"
      [] step = "run" -> "run_node"
      [] step = "run_node" -> "create_builder_config"
      [] step = "create_builder_config" -> "build_engine"
      [] step = "build_engine" -> "done"

Fail(step, e) ==
    /\ pc' = "done"
    /\ log' = Append(log, Entry(step, 0, e))
    /\ result' = Propagate(e, None)

Pass(step) ==
    /\ pc' = NextStep(step)
    /\ log' = Append(log, Entry(step, 0, None))
    /\ UNCHANGED result

(***************************************************************************)
(* The aten graph aot_export_joint_simple traces.                          *)
(***************************************************************************)
AtenGraph(g) ==
    [i \in DOMAIN g |->
        IF g[i].op \in {"call_function", "call_method", "call_module"}
        THEN [g[i] EXCEPT
                !.op = "call_function",
                !.target = CASE @ = "torch.relu" -> "aten.relu.default"
                             [] @ = "clone" -> "aten.clone.default"
                             [] @ = "nonzero" -> "aten.nonzero.default"
                             [] OTHER -> @]
        ELSE g[i]]


(***************************************************************************)
(* Input specs, dtypes and the converter registry.                         *)
(***************************************************************************)
\* unified_dtype_converter(dtype, Frameworks.TRT)
unified_dtype_converter(torch_dtype) ==
    CASE torch_dtype = "torch.float32" -> "trt.float32"
      [] torch_dtype = "torch.float16" -> "trt.float16"
      [] torch_dtype = "torch.int32" -> "trt.int32"
      [] torch_dtype = "torch.int8" -> "trt.int8"
      [] torch_dtype = "torch.bool" -> "trt.bool"
      [] OTHER -> torch_dtype

StaticInput(shape, dtype) ==
    [shape_mode |-> "STATIC", shape |-> shape, min_shape |-> <<>>, opt_shape |-> <<>>,
     max_shape |-> <<>>, torch_dtype |-> dtype]

DynamicInput(mn, opt, mx, dtype) ==
    [shape_mode |-> "DYNAMIC", shape |-> <<>>, min_shape |-> mn, opt_shape |-> opt,
     max_shape |-> mx, torch_dtype |-> dtype]

RECURSIVE SeqsUpTo(_, _)
SeqsUpTo(S, k) ==
    IF k = 0 THEN {<<>>}
    ELSE LET shorter == SeqsUpTo(S, k - 1)
         IN shorter \cup {Append(q, x) : q \in {r \in shorter : Len(r) = k - 1}, x \in S}

\* shapes of rank 1..MaxRank with sizes 1..MaxDim
Shapes == SeqsUpTo(1..MaxDim, MaxRank) \ {<<>>}

\* compile_module: one static Input per sample tensor
SpecsFromSamples(ts) == [i \in DOMAIN ts |-> StaticInput(ts[i].shape, ts[i].dtype)]

NumPlaceholders(g) == Len(Placeholders(g))

\* the input_specs arguments TRTInterpreter is constructed with: the driver's
\* list, lists over three specs when the whole list is varied, every one spec
\* over Shapes when one spec is varied
InputSpecLists(mode, g, ts) ==
    CASE mode = "driver" -> {SpecsFromSamples(ts)}
      [] mode = "direct" ->
            SeqsUpTo({ StaticInput(<<2, 2>>, "torch.float32"),
                       StaticInput(<<1>>, "torch.int32"),
                       DynamicInput(<<1, 2>>, <<2, 2>>, <<2, 2>>, "torch.float32") },
                     NumPlaceholders(g) + 1)
      [] mode = "shapes" ->
            {<<StaticInput(sh, d)>> : sh \in Shapes, d \in {"torch.float32", "torch.int32"}}
            \cup {<<DynamicInput(mn, opt, mx, "torch.float32")>> :
                     mn \in Shapes, opt \in Shapes, mx \in Shapes}
      [] mode = "outputs" ->
            {<<StaticInput(<<2, 2>>, "torch.float32"), StaticInput(<<1>>, "torch.int32")>>}
      [] OTHER -> {[i \in 1..NumPlaceholders(g) |-> StaticInput(<<2, 2>>, "torch.float32")]}

\* the output_dtypes arguments TRTInterpreter is constructed with (has: not None)
OutputDtypeArgs(mode) ==
    IF mode = "outputs"
    THEN {[has |-> FALSE, list |-> <<>>]}
         \cup {[has |-> TRUE, list |-> q] :
                  q \in SeqsUpTo({"torch.float32", "torch.int32"}, MaxOutputs + 1)}
    ELSE {[has |-> FALSE, list |-> <<>>]}

\* the (precision, platform_has_fast_int8) pairs run is called with
RunArgs ==
    IF caller = "outputs"
    THEN {[precision |-> p, force_fp32_output |-> f, fast_int8 |-> TRUE] :
            p \in {"torch.float32", "torch.float16"}, f \in BOOLEAN}
    ELSE { [precision |-> "torch.float32", force_fp32_output |-> FALSE, fast_int8 |-> TRUE],
           [precision |-> "torch.int8", force_fp32_output |-> FALSE, fast_int8 |-> FALSE] }

(***************************************************************************)
(* Python arguments of a node that are not nodes: a value is a tag and a   *)
(* sequence of integers (a bool is <<0>> or <<1>>).  A node that carries   *)
(* them has the fields argv (node.args in full) and kwargs (node.kwargs).  *)
(***************************************************************************)
TensorArg == [tag |-> "node", v |-> <<>>]
BoolArg(b) == [tag |-> "bool", v |-> IF b THEN <<1>> ELSE <<0>>]
IntArg(n) == [tag |-> "int", v |-> <<n>>]
ListArg(q) == [tag |-> "list", v |-> q]
NoneArg == [tag |-> "none", v |-> <<>>]

\* bool(x) of Python
Truthy(x) ==
    CASE x.tag = "none" -> FALSE
      [] x.tag = "bool" -> x.v = <<1>>
      [] x.tag = "int" -> x.v # <<0>>
      [] x.tag = "list" -> x.v # <<>>
      [] OTHER -> TRUE

\* args_bounds_check(args, i): args[i] if len(args) > i else None
args_bounds_check(args, i) == IF Len(args) > i THEN args[i + 1] ELSE NoneArg

\* embedding_param_validator
embedding_param_validator(node) ==
    LET scale_grad_by_freq == args_bounds_check(node.argv, 3)
        sparse == args_bounds_check(node.argv, 4)
    IN IF scale_grad_by_freq # NoneArg THEN FALSE
       ELSE IF sparse # NoneArg THEN FALSE
       ELSE TRUE

\* allowed_casts of to_copy_dtype_validator (torch.float is torch.float32)
AllowedCasts == {"torch.float32", "torch.int32", "torch.bool", "torch.int8", "torch.float16"}

\* to_copy_dtype_validator
to_copy_dtype_validator(node) ==
    IF "dtype" \in DOMAIN node.kwargs
    THEN node.kwargs["dtype"] \in AllowedCasts
    ELSE FALSE

\* amax_param_validator
amax_param_validator(node) == ~(Len(node.argv) < 2)

conv_param_validator_transposed_only(node) == ~Truthy(node.argv[7])

\* conv_param_validator
conv_param_validator(node) ==
    /\ ~Truthy(node.argv[7])
    /\ node.argv[8] \in {ListArg(<<0>>), ListArg(<<0, 0>>), ListArg(<<0, 0, 0>>)}

\* the capability_validator each identity was registered with
ValidatedTargets ==
    {"aten.embedding.default", "aten._to_copy.default", "aten.amax.default",
     "aten.convolution.default"}

capability_validator(node) ==
    CASE node.target = "aten.embedding.default" -> embedding_param_validator(node)
      [] node.target = "aten._to_copy.default" -> to_copy_dtype_validator(node)
      [] node.target = "aten.amax.default" -> amax_param_validator(node)
      [] node.target = "aten.convolution.default" -> conv_param_validator(node)
      [] OTHER -> TRUE

\* DYNAMO_CONVERTERS: the operator identities with a converter
Registered ==
    {"aten.relu.default", "aten.clone.default", "aten.isinf.default"} \cup ValidatedTargets

\* a call_function node with its Python arguments
CallNodeWith(nm, target, a, argv, kwargs) ==
    [name |-> nm, op |-> "call_function", target |-> target, args |-> a,
     argv |-> argv, kwargs |-> kwargs]

NoKwargs == [k \in {} |-> "torch.float32"]

\* the nodes of the validated identities, over the arguments their validators read
ValidatedCalls(nm, a) ==
    LET head == <<TensorArg, TensorArg>>
        embedding == {head, head \o <<IntArg(-1)>>}
                     \cup {head \o <<IntArg(-1), BoolArg(b)>> : b \in BOOLEAN}
                     \cup {head \o <<IntArg(-1), BoolArg(b), BoolArg(c)>> :
                              b \in BOOLEAN, c \in BOOLEAN}
        to_copy == {NoKwargs}
                   \cup {[k \in {"dtype"} |-> d] :
                            d \in AllowedCasts \cup {"torch.int64", "torch.float64"}}
        amax == {<<TensorArg>>, <<TensorArg, ListArg(<<1>>)>>,
                 <<TensorArg, ListArg(<<1>>), BoolArg(FALSE)>>}
        convolution ==
            {<<TensorArg, TensorArg, NoneArg, ListArg(<<1>>), ListArg(<<0>>), ListArg(<<1>>),
               BoolArg(transposed), ListArg(output_padding), IntArg(1)>> :
                transposed \in BOOLEAN, output_padding \in SeqsUpTo({0, 1}, 3) \ {<<>>}}
    IN {CallNodeWith(nm, "aten.embedding.default", a, argv, NoKwargs) : argv \in embedding}
       \cup {CallNodeWith(nm, "aten._to_copy.default", a, <<TensorArg>>, kw) : kw \in to_copy}
       \cup {CallNodeWith(nm, "aten.amax.default", a, argv, NoKwargs) : argv \in amax}
       \cup {CallNodeWith(nm, "aten.convolution.default", a, argv, NoKwargs) :
                argv \in convolution}

\* type of the submodule a call_module node targets
SubmodType(target) == IF target = "lstm" THEN "torch.nn.LSTM" ELSE target


\* CONVERTERS.get(node): does the lookup yield a converter
HasConverter(node) ==
    IF node.op = "call_module" THEN SubmodType(node.target) \in Registered
    ELSE node.target \in Registered /\ capability_validator(node)

\* the name the UnsupportedOperatorException message carries
UnsupportedName(node) ==
    IF node.op = "call_module" THEN SubmodType(node.target) ELSE node.target

NoInterpreter ==
    [input_specs |-> <<>>, input_specs_iter |-> 0, input_names |-> <<>>,
     output_names |-> <<>>, has_profiles |-> FALSE, profile |-> <<>>,
     has_output_dtypes |-> FALSE, output_dtypes |-> <<>>, output_fp16 |-> FALSE]

EmptyNetwork == [tensors |-> <<>>, inputs |-> <<>>, outputs |-> <<>>, layers |-> <<>>]

NoBuilder == [config |-> FALSE, profiles |-> 0, calls |-> 0, engine |-> None]

\* no call is in progress
NoArgs == [precision |-> None, force_fp32_output |-> FALSE, fast_int8 |-> FALSE]

(***************************************************************************)
(* Initial states.                                                         *)
(***************************************************************************)
InitCommon ==
    /\ gm = "orig"
    /\ passes = ATEN_LOWERING_PASSES
    /\ log = <<>>
    /\ it = NoInterpreter
    /\ net = EmptyNetwork
    /\ env = <<>>
    /\ injected = {}
    /\ ip = 0
    /\ bld = NoBuilder
    /\ result = NoResult
    /\ callargs = NoArgs

\* _pretraced_backend(gm, sample_inputs, settings) is entered
Init ==
    /\ caller = "driver"
    /\ pc = "pre_aot_substitutions"
    /\ passThrough \in BOOLEAN
    /\ given \in Graphs(TorchKinds)
    /\ samples \in [1..NumPlaceholders(given) ->
                      { [shape |-> <<1>>, dtype |-> "torch.float32"],
                        [shape |-> <<2, 2>>, dtype |-> "torch.int32"] }]
    /\ mods = [orig |-> given, aot |-> <<>>]
    /\ InitCommon

\* TRTInterpreter(module, input_specs) is about to be constructed by a direct caller
InitInterp ==
    /\ caller = "direct"
    /\ pc = "compile_module"
    /\ passThrough = FALSE
    /\ given \in Graphs(InterpKinds)
    /\ samples = <<>>
    /\ mods = [orig |-> given, aot |-> <<>>]
    /\ InitCommon

\* the same, by a caller that calls run() again on the interpreter it has
InitRerun ==
    /\ caller = "rerun"
    /\ pc = "compile_module"
    /\ passThrough = FALSE
    /\ given \in Graphs(InterpKinds)
    /\ samples = <<>>
    /\ mods = [orig |-> given, aot |-> <<>>]
    /\ InitCommon

\* the same, on the graph of one placeholder returned through one operation
InitShapes ==
    /\ caller = "shapes"
    /\ pc = "compile_module"
    /\ passThrough = FALSE
    /\ given = <<PlaceholderNode(1),
                 CallNode(2, <<"call_function", "aten.relu.default">>, <<1>>),
                 OutputNode(3, <<2>>)>>
    /\ samples = <<>>
    /\ mods = [orig |-> given, aot |-> <<>>]
    /\ InitCommon

(***************************************************************************)
(* The compile driver, _pretraced_backend.                                 *)
(***************************************************************************)
interpFrame == <<it, net, env, injected, ip, bld, callargs>>

\* gm = pre_aot_substitutions(gm)
PreAotSubstitutions ==
    /\ pc = "pre_aot_substitutions"
    /\ \E o \in {"ok"} \cup ExternalFailures :
         IF o = "ok" THEN Pass("pre_aot_substitutions") ELSE Fail("pre_aot_substitutions", o)
    /\ UNCHANGED <<caller, passes, passThrough, given, samples, gm, mods, interpFrame>>

\* repair_input_aliasing(gm): rewrites the module gm is bound to, in place
RepairInputAliasing ==
    /\ pc = "repair_input_aliasing"
    /\ mods' = [mods EXCEPT ![gm] = repair_input_aliasing(mods[gm])]
    /\ \E o \in {"ok"} \cup ExternalFailures :
         IF o = "ok" THEN Pass("repair_input_aliasing") ELSE Fail("repair_input_aliasing", o)
    /\ UNCHANGED <<caller, passes, passThrough, given, samples, gm, interpFrame>>

\* gm = aot_export_joint_simple(gm, sample_inputs, decompositions): a new module
AotExport ==
    /\ pc = "aot_export_joint_simple"
    /\ \E o \in {"ok"} \cup ExternalFailures :
         IF o = "ok"
         THEN /\ Pass("aot_export_joint_simple")
              /\ gm' = "aot"
              /\ mods' = [mods EXCEPT !["aot"] = AtenGraph(mods[gm])]
         ELSE /\ Fail("aot_export_joint_simple", o)
              /\ UNCHANGED <<gm, mods>>
    /\ UNCHANGED <<caller, passes, passThrough, given, samples, interpFrame>>

\* gm = apply_lowering_passes(gm): the passes rewrite the module in place
ApplyLoweringPasses ==
    /\ pc = "apply_lowering_passes"
    /\ \E o \in {"ok"} \cup ExternalFailures :
         IF o = "ok"
         THEN /\ Pass("apply_lowering_passes")
              /\ mods' = [mods EXCEPT ![gm] = apply_lowering_passes(mods[gm])]
         ELSE /\ Fail("apply_lowering_passes", o)
              /\ UNCHANGED mods
    /\ UNCHANGED <<caller, passes, passThrough, given, samples, gm, interpFrame>>


\* TRTInterpreter on the graph of one placeholder, one node of a validated
\* identity and the output node
InitValidators ==
    /\ caller = "validators"
    /\ pc = "compile_module"
    /\ passThrough = FALSE
    /\ given \in {<<PlaceholderNode(1), call, OutputNode(3, <<2>>)>> :
                     call \in ValidatedCalls(2, <<1>>)}
    /\ samples = <<>>
    /\ mods = [orig |-> given, aot |-> <<>>]
    /\ InitCommon

\* graphs of two placeholders (the second one named "any"), one call of
\* aten.isinf.default or aten.relu.default, and the output node; it returns up
\* to MaxOutputs entries, each one of the nodes before it or a literal (0), and
\* an entry may repeat
OutputGraphs ==
    {<<PlaceholderNode(1),
       [PlaceholderNode(2) EXCEPT !.target = "any"],
       CallNode(3, <<"call_function", target>>, <<a>>),
       OutputNode(4, outs)>> :
        target \in {"aten.isinf.default", "aten.relu.default"},
        a \in {1, 2},
        outs \in SeqsUpTo(0..3, MaxOutputs) \ {<<>>}}

\* TRTInterpreter(module, input_specs, output_dtypes=...) on these graphs
InitOutputs ==
    /\ caller = "outputs"
    /\ pc = "compile_module"
    /\ passThrough = FALSE
    /\ given \in OutputGraphs
    /\ samples = <<>>
    /\ mods = [orig |-> given, aot |-> <<>>]
    /\ InitCommon

(***************************************************************************)
(* TRTInterpreter.                                                         *)
(***************************************************************************)
driverFrame == <<caller, passThrough, given, samples, gm, mods, passes>>

\* self.module.graph
Module == mods[gm]

\* the node torch.fx.Interpreter.run hands to run_node next
CurNode == Module[ip + 1]

\* compile_module constructs the interpreter on the lowered module; a direct
\* caller constructs it on its own graph. TRTInterpreter.__init__:
\* optimization_profiles is a list of one profile if any input spec is dynamic,
\* None otherwise
TRTInterpreterInit ==
    /\ pc = "compile_module"
    /\ \E specs \in InputSpecLists(caller, Module, samples), od \in OutputDtypeArgs(caller) :
         it' = [NoInterpreter EXCEPT !.input_specs = specs,
                                     !.has_profiles =
                                        \E i \in DOMAIN specs :
                                            specs[i].shape_mode = "DYNAMIC",
                                     !.has_output_dtypes = od.has,
                                     !.output_dtypes = od.list]
    /\ net' = EmptyNetwork
    /\ env' = [n \in Names(Module) |-> 0]
    /\ ip' = 0
    /\ Pass("compile_module")
    /\ UNCHANGED <<driverFrame, injected, bld, callargs>>

\* TRTInterpreter.run, up to the call of super().run()
RunStart ==
    /\ pc = "run"
    /\ \E a \in RunArgs :
         /\ callargs' = a
         /\ it' = [it EXCEPT !.output_fp16 =
                                 ~a.force_fp32_output /\ a.precision = "torch.float16",
                             !.input_specs_iter =
                                 IF a.precision = "torch.int8" /\ ~a.fast_int8 THEN @ ELSE 0]
         /\ IF a.precision = "torch.int8" /\ ~a.fast_int8
            THEN Fail("run", "RuntimeError")
            ELSE Pass("run")
    /\ UNCHANGED <<driverFrame, net, env, injected, ip, bld>>

DynamicShapeMinMaxOnly(min_shape, opt_shape, max_shape) ==
    [i \in 1..Len(min_shape) |->
        IF min_shape[i] = max_shape[i] THEN min_shape[i] ELSE -1]

\* the shape placeholder() declares for a dynamic input
DynamicShape(min_shape, opt_shape, max_shape) ==
    [i \in 1..Len(min_shape) |->
        IF min_shape[i] = opt_shape[i] /\ opt_shape[i] = max_shape[i]
        THEN min_shape[i]
        ELSE -1]

CurrentInputFirst(specs, iter) == specs[1]

\* the spec placeholder() reads
CurrentInput(specs, iter) == specs[iter + 1]

\* the exception placeholder() raises for this spec, or None
PlaceholderError(cur, has_profiles) ==
    CASE cur.shape_mode = "DYNAMIC" /\ ~has_profiles -> "AssertionError"
      [] /\ cur.shape_mode = "DYNAMIC"
         /\ ~(/\ Len(cur.min_shape) = Len(cur.opt_shape)
              /\ Len(cur.opt_shape) = Len(cur.max_shape)) -> "AssertionError"
      [] cur.shape_mode \notin {"DYNAMIC", "STATIC"} -> "RuntimeError"
      [] OTHER -> None

\* network.add_input(name, ...): whether it hands back a tensor; for a name
\* the network already has an input of, TensorRT may hand back none
AddInputOutcomes(network, target) ==
    IF \E i \in DOMAIN network.inputs : network.tensors[network.inputs[i]].name = <<target>>
    THEN {TRUE, FALSE}
    ELSE {TRUE}

\* one more node of the graph has been run. TRTInterpreter.run_node around the
\* node's method: the key is put into n.kwargs before super().run_node(n) and
\* deleted after it returned
Advance(node, exc) ==
    /\ log' = Append(log, Entry("run_node", node.name, exc))
    /\ injected' = IF exc = None THEN injected \ {node.name} ELSE injected \cup {node.name}
    /\ ip' = ip + 1

FailNode(node, e, about) ==
    /\ Advance(node, e)
    /\ pc' = "done"
    /\ result' = Propagate(e, about)

PassNode(node) ==
    /\ Advance(node, None)
    /\ pc' = IF node.op = "output" THEN NextStep("run_node") ELSE pc
    /\ UNCHANGED result

\* TRTInterpreter.placeholder
RunPlaceholder ==
    /\ pc = "run_node"
    /\ ip < Len(Module)
    /\ CurNode.op = "placeholder"
    /\ LET node == CurNode
           names == Append(it.input_names, node.target)
       IN IF it.input_specs_iter >= Len(it.input_specs)
          THEN /\ it' = [it EXCEPT !.input_names = names]
               /\ FailNode(node, "IndexError", None)
               /\ UNCHANGED <<net, env>>
          ELSE LET cur == CurrentInput(it.input_specs, it.input_specs_iter)
                   err == PlaceholderError(cur, it.has_profiles)
                   set_shape == cur.shape_mode = "DYNAMIC" /\ it.has_profiles
                   \* the tensor network.add_input creates
                   tensor == [name |-> <<node.target>>,
                              shape |-> IF cur.shape_mode = "DYNAMIC"
                                        THEN DynamicShape(cur.min_shape, cur.opt_shape,
                                                          cur.max_shape)
                                        ELSE cur.shape,
                              dtype |-> unified_dtype_converter(cur.torch_dtype)]
               IN /\ it' = [it EXCEPT !.input_names = names,
                                      !.input_specs_iter = @ + 1,
                                      !.profile = IF set_shape
                                                  THEN Append(@, [name |-> node.target,
                                                                  min |-> cur.min_shape,
                                                                  opt |-> cur.opt_shape,
                                                                  max |-> cur.max_shape])
                                                  ELSE @]
                  /\ IF err # None
                     THEN /\ FailNode(node, err, None)
                          /\ UNCHANGED <<net, env>>
                     ELSE \E added \in AddInputOutcomes(net, node.target) :
                            /\ IF added
                               THEN /\ net' = [net EXCEPT
                                                 !.tensors = Append(@, tensor),
                                                 !.inputs = Append(@, Len(net.tensors) + 1)]
                                    /\ env' = [env EXCEPT ![node.name] = Len(net.tensors) + 1]
                               ELSE /\ env' = [env EXCEPT ![node.name] = 0]
                                    /\ UNCHANGED net
                            /\ PassNode(node)
    /\ UNCHANGED <<driverFrame, bld, callargs>>

\* the tensor a converter returns: the output of the layer it adds. Its name
\* is split at "_": the converter of aten.isinf.default goes through
\* convert_unary, which appends "_" + kind to the name the layer's output has,
\* kind being str(target.__name__) if callable(target) else target, and the
\* __name__ of an operator overload is "<op>.<overload>"
ConverterTensor(node) ==
    LET a == node.args[1]
        src == IF a = 0 THEN 0 ELSE env[a]
        kind == IF node.op = "call_function" /\ node.target = "aten.isinf.default"
                THEN "isinf.default"
                ELSE node.target
        short == CASE node.target = "aten.relu.default" -> "relu"
                   [] node.target = "aten.clone.default" -> "clone"
                   [] OTHER -> node.target
    IN [name |-> IF node.target = "aten.isinf.default"
                 THEN <<"(Unnamed Layer) [Unary]", "output", kind>>
                 ELSE <<short, ToString(node.name)>>,
        shape |-> IF src = 0 THEN <<>> ELSE net.tensors[src].shape,
        dtype |-> IF src = 0 THEN "trt.float32" ELSE net.tensors[src].dtype]

MissingConverterIgnored(node) == FALSE

\* if not converter: raise UnsupportedOperatorException(...)
MissingConverter(node) == ~HasConverter(node)

\* TRTInterpreter.call_function / call_method / call_module
RunCall ==
    /\ pc = "run_node"
    /\ ip < Len(Module)
    /\ CurNode.op \in {"call_function", "call_method", "call_module"}
    /\ LET node == CurNode
       IN IF MissingConverter(node)
          THEN /\ FailNode(node, "UnsupportedOperatorException", UnsupportedName(node))
               /\ UNCHANGED <<net, env>>
          ELSE \E o \in {"ok", "RuntimeError"} :
                 IF o = "ok"
                 THEN /\ net' = [net EXCEPT !.tensors = Append(@, ConverterTensor(node)),
                                            !.layers = Append(@, node.name)]
                      /\ env' = [env EXCEPT ![node.name] = Len(net.tensors) + 1]
                      /\ PassNode(node)
                 ELSE /\ FailNode(node, o, None)
                      /\ UNCHANGED <<net, env>>
    /\ UNCHANGED <<driverFrame, it, bld, callargs>>

\* torch.fx.Interpreter.get_attr: the attribute, which is no network tensor
RunGetAttr ==
    /\ pc = "run_node"
    /\ ip < Len(Module)
    /\ CurNode.op = "get_attr"
    /\ PassNode(CurNode)
    /\ UNCHANGED <<driverFrame, it, net, env, bld, callargs>>


\* the operator-name tokens that make output() force a boolean dtype
BoolFamily == {"eq", "gt", "lt", "or", "xor", "and", "not", "ne", "isinf", "any"}

\* any(op_name in output.name.split("_") ...): names are kept split at "_"
IsBoolName(tokens) == \E k \in DOMAIN tokens : tokens[k] \in BoolFamily

\* the values the output node returns, as tensor indices (0: not a tensor)
OutputValues(node) ==
    [k \in DOMAIN node.args |-> IF node.args[k] = 0 THEN 0 ELSE env[node.args[k]]]

NotAllTensorsFirstOnly(outs) == outs[1] = 0

\* not all(isinstance(output, trt.tensorrt.ITensor) for output in outputs)
NotAllTensors(outs) == \E k \in DOMAIN outs : outs[k] = 0

DtypeCountMismatchUnlessBool(outs, itp) ==
    /\ itp.has_output_dtypes
    /\ Len(itp.output_dtypes) # Len(outs)
    /\ \E k \in DOMAIN outs : outs[k] # 0 /\ ~IsBoolName(net.tensors[outs[k]].name)

\* self.output_dtypes is not None and len(self.output_dtypes) != len(outputs)
DtypeCountMismatch(outs, itp) ==
    itp.has_output_dtypes /\ Len(itp.output_dtypes) # Len(outs)

\* the exception output() raises before its loop, or None
OutputError(outs, itp) ==
    CASE NotAllTensors(outs) -> "RuntimeError"
      [] DtypeCountMismatch(outs, itp) -> "RuntimeError"
      [] OTHER -> None

OutputDtypePrecisionFirst(tensor, i, itp) ==
    IF IsBoolName(tensor.name) THEN "trt.bool"
    ELSE IF itp.output_fp16 /\ tensor.dtype = "trt.float32" THEN "trt.float16"
    ELSE IF itp.has_output_dtypes THEN unified_dtype_converter(itp.output_dtypes[i])
    ELSE tensor.dtype

OutputNameFromOne(i) == "output" \o ToString(i)

\* name = f"output{i}", i counted from 0 (here positions are counted from 1)
OutputName(i) == "output" \o ToString(i - 1)

\* the dtype output() leaves on the tensor it finds at position i
OutputDtype(tensor, i, itp) ==
    IF IsBoolName(tensor.name) THEN "trt.bool"
    ELSE IF itp.has_output_dtypes THEN unified_dtype_converter(itp.output_dtypes[i])
    ELSE IF itp.output_fp16 /\ tensor.dtype = "trt.float32" THEN "trt.float16"
    ELSE tensor.dtype

\* the loop of output(): st holds the network and self._output_names
RECURSIVE MarkOutputs(_, _, _, _)
MarkOutputs(st, outs, i, itp) ==
    \* (an entry that is no tensor ends the loop: OutputError lets none through)
    IF i > Len(outs) \/ outs[i] = 0 THEN st
    ELSE LET t == outs[i]
             name == OutputName(i)
             dtype == OutputDtype(st.net.tensors[t], i, itp)
         IN MarkOutputs(
              [net |-> [st.net EXCEPT !.tensors[t] = [@ EXCEPT !.name = <<name>>, !.dtype = dtype],
                                      !.outputs = Append(@, t)],
               names |-> Append(st.names, name)],
              outs, i + 1, itp)

\* TRTInterpreter.output
RunOutput ==
    /\ pc = "run_node"
    /\ ip < Len(Module)
    /\ CurNode.op = "output"
    /\ LET node == CurNode
           outs == OutputValues(node)
           err == OutputError(outs, it)
       IN IF err # None
          THEN /\ FailNode(node, err, None)
               /\ UNCHANGED <<it, net>>
          ELSE LET st == MarkOutputs([net |-> net, names |-> it.output_names], outs, 1, it)
               IN /\ net' = st.net
                  /\ it' = [it EXCEPT !.output_names = st.names]
                  /\ PassNode(node)
    /\ UNCHANGED <<driverFrame, env, bld, callargs>>

\* TRTInterpreter.run: builder_config = create_builder_config() and its settings
CreateBuilderConfig ==
    /\ pc = "create_builder_config"
    /\ bld' = [bld EXCEPT !.config = TRUE, !.profiles = @ + (IF it.has_profiles THEN 1 ELSE 0)]
    /\ Pass("create_builder_config")
    /\ UNCHANGED <<driverFrame, it, net, env, injected, ip, callargs>>

EngineUnchecked(engine) == TRUE

\* assert engine
EngineBuilt(engine) == engine # None

\* TRTInterpreter.run: engine = build_engine(network, builder_config); assert;
\* return. compile_module wraps what run() returns into the compiled module
BuildEngine ==
    /\ pc = "build_engine"
    /\ \E engine \in {"engine", None} :
         /\ bld' = [bld EXCEPT !.calls = @ + 1, !.engine = engine]
         /\ IF EngineBuilt(engine)
            THEN /\ pc' = NextStep("build_engine")
                 /\ log' = Append(log, Entry("build_engine", 0, None))
                 /\ result' = [kind |-> IF caller = "driver" THEN "compiled"
                                         ELSE "interpreter_result",
                                module |-> IF caller = "driver" THEN "trt" ELSE None,
                                exc |-> None, about |-> None]
            ELSE Fail("build_engine", "AssertionError")
    /\ UNCHANGED <<driverFrame, it, net, env, injected, ip, callargs>>

(***************************************************************************)
(* Specifications.                                                         *)
(***************************************************************************)
Interpret ==
    \/ TRTInterpreterInit
    \/ RunStart
    \/ RunPlaceholder
    \/ RunCall
    \/ RunOutput
    \/ CreateBuilderConfig
    \/ BuildEngine

\* one invocation of _pretraced_backend
Next ==
    \/ PreAotSubstitutions
    \/ RepairInputAliasing
    \/ AotExport
    \/ ApplyLoweringPasses
    \/ RunGetAttr
    \/ Interpret

Spec == Init /\ [][Next]_vars

\* one TRTInterpreter constructed and run by a direct caller
SpecInterp == InitInterp /\ [][Interpret]_vars

\* the same with one input spec drawn from every spec over Shapes
SpecShapes == InitShapes /\ [][Interpret]_vars

\* the same on the graphs that vary the returned tuple, with output_dtypes,
\* precision and force_fp32_output varied
SpecOutputs == InitOutputs /\ [][Interpret]_vars

\* the caller calls run() on the same interpreter once more: torch.fx's
\* Interpreter.run starts from a new env at the first node, run() creates a new
\* builder config; the interpreter's own fields and its network stay
RunAgain ==
    /\ caller = "rerun"
    /\ pc = "done"
    /\ Len(SelectSeq(log, LAMBDA e : e.step = "run")) < MaxUtilityCalls
    /\ pc' = "run"
    /\ ip' = 0
    /\ env' = [n \in Names(Module) |-> 0]
    /\ bld' = [bld EXCEPT !.config = FALSE, !.profiles = 0, !.engine = None]
    /\ result' = NoResult
    /\ UNCHANGED <<driverFrame, log, it, net, injected, callargs>>

\* run() called up to MaxUtilityCalls times on one interpreter
SpecRerun == InitRerun /\ [][Interpret \/ RunAgain]_vars

\* the same on the nodes of the identities registered with a validator
SpecValidators == InitValidators /\ [][Interpret]_vars

(***************************************************************************)
(* converter_utils.py and aten_ops_div, called on a network of their own.  *)
(* A function of the code that changes the network is an operator that     *)
(* returns the network after the call and the value returned (ret).        *)
(***************************************************************************)
cast_trt_tensor_always_adds(network, input_val, dtype) ==
    LET trt_dtype == unified_dtype_converter(dtype)
        out == Len(network.tensors) + 1
    IN [net |-> [network EXCEPT
                   !.tensors = Append(@, [network.tensors[input_val] EXCEPT
                                             !.name = <<"(Unnamed Layer) [Identity]", "output">>,
                                             !.dtype = trt_dtype]),
                   !.layers = Append(@, [type |-> "identity", inputs |-> <<input_val>>,
                                         output |-> out])],
        ret |-> out]

\* cast_trt_tensor: an identity layer with the output type set, or the tensor itself
cast_trt_tensor(network, input_val, dtype) ==
    LET trt_dtype == unified_dtype_converter(dtype)
        out == Len(network.tensors) + 1
    IN IF network.tensors[input_val].dtype # trt_dtype
       THEN [net |-> [network EXCEPT
                        !.tensors = Append(@, [network.tensors[input_val] EXCEPT
                                                  !.name = <<"(Unnamed Layer) [Identity]", "output">>,
                                                  !.dtype = trt_dtype]),
                        !.layers = Append(@, [type |-> "identity", inputs |-> <<input_val>>,
                                              output |-> out])],
             ret |-> out]
       ELSE [net |-> network, ret |-> input_val]

\* dtype == trt.int8 or dtype == trt.int32
IsIntDtype(dtype) == dtype = "trt.int8" \/ dtype = "trt.int32"

\* cast_int_int_div_trt_tensor: both operands are cast when both are int
cast_int_int_div_trt_tensor(network, lhs_val, rhs_val) ==
    IF /\ IsIntDtype(network.tensors[lhs_val].dtype)
       /\ IsIntDtype(network.tensors[rhs_val].dtype)
    THEN LET l == cast_trt_tensor(network, lhs_val, "trt.float32")
             r == cast_trt_tensor(l.net, rhs_val, "trt.float32")
         IN [net |-> r.net, ret |-> <<l.ret, r.ret>>]
    ELSE [net |-> network, ret |-> <<lhs_val, rhs_val>>]

\* the division the converter hands its operands to (acc_ops_div,
\* acc_ops_floor_div, trunc_div): recorded as one layer over these operands;
\* an operand 0 is a value that is no network tensor
Division(network, type, operands) ==
    LET out == Len(network.tensors) + 1
        first == IF operands[1] # 0 THEN operands[1] ELSE operands[2]
    IN [net |-> [network EXCEPT
                   !.tensors = Append(@, [name |-> <<"(Unnamed Layer) [ElementWise]", "output">>,
                                          shape |-> IF first = 0 THEN <<>>
                                                    ELSE network.tensors[first].shape,
                                          dtype |-> IF first = 0 THEN "trt.float32"
                                                    ELSE network.tensors[first].dtype]),
                   !.layers = Append(@, [type |-> type, inputs |-> operands, output |-> out])],
        ret |-> out,
        exc |-> None]

\* aten_ops_div(network, target, args, kwargs, name)
aten_ops_div(network, arg0, arg1, rounding_mode) ==
    LET c == IF arg0 # 0 /\ arg1 # 0
             THEN cast_int_int_div_trt_tensor(network, arg0, arg1)
             ELSE IF arg0 # 0 /\ IsIntDtype(network.tensors[arg0].dtype)
             THEN LET r == cast_trt_tensor(network, arg0, "trt.float32")
                  IN [net |-> r.net, ret |-> <<r.ret, arg1>>]
             ELSE IF arg1 # 0 /\ IsIntDtype(network.tensors[arg1].dtype)
             THEN LET r == cast_trt_tensor(network, arg1, "trt.float32")
                  IN [net |-> r.net, ret |-> <<arg0, r.ret>>]
             ELSE [net |-> network, ret |-> <<arg0, arg1>>]
    IN CASE rounding_mode = None -> Division(c.net, "div", c.ret)
         [] rounding_mode = "floor" -> Division(c.net, "floor_div", c.ret)
         [] rounding_mode = "trunc" -> Division(c.net, "trunc_div", <<arg0, arg1>>)
         [] OTHER -> [net |-> c.net, ret |-> 0, exc |-> "RuntimeError"]

\* broadcastable(a, b) on the shapes of the two tensors
broadcastable_left_aligned(a_shape, b_shape) ==
    \A i \in DOMAIN a_shape \cap DOMAIN b_shape :
        a_shape[i] = b_shape[i] \/ a_shape[i] = 1 \/ b_shape[i] = 1

Ones(n) == [i \in 1..n |-> 1]

Abs(n) == IF n < 0 THEN -n ELSE n

broadcastable(a_shape, b_shape) ==
    LET diff == Len(a_shape) - Len(b_shape)
    IN IF diff = 0 /\ \A i \in 1..Len(a_shape) : a_shape[i] = b_shape[i]
       THEN TRUE
       ELSE LET a == IF diff > 0 THEN a_shape ELSE Ones(Abs(diff)) \o a_shape
                b == IF diff > 0 THEN Ones(Abs(diff)) \o b_shape ELSE b_shape
            IN \A i \in 1..Len(a) : a[i] = b[i] \/ a[i] = 1 \/ b[i] = 1

\* the dtypes of the tensors the utilities are called on
TensorDtypes == {"trt.int8", "trt.int32", "trt.float32"}

\* the value a utility returned
Returns(value, exc) == [kind |-> "returned", value |-> value, exc |-> exc]

InitUtility ==
    /\ pc = "utility"
    /\ passThrough = FALSE
    /\ given = <<>>
    /\ samples = <<>>
    /\ gm = "orig"
    /\ mods = [orig |-> <<>>, aot |-> <<>>]
    /\ passes = ATEN_LOWERING_PASSES
    /\ log = <<>>
    /\ it = NoInterpreter
    /\ env = <<>>
    /\ injected = {}
    /\ ip = 0
    /\ bld = NoBuilder
    /\ result = NoResult
    /\ callargs = NoArgs

\* a network of two tensors, on which casts and divisions are requested
InitDiv ==
    /\ caller = "div"
    /\ \E l \in TensorDtypes, r \in TensorDtypes :
         net = [EmptyNetwork EXCEPT
                  !.tensors = <<[name |-> <<"lhs">>, shape |-> <<2, 2>>, dtype |-> l],
                                [name |-> <<"rhs">>, shape |-> <<2, 2>>, dtype |-> r]>>]
    /\ InitUtility

\* two tensors of any shapes up to rank MaxRank
InitBroadcast ==
    /\ caller = "broadcastable"
    /\ \E a \in SeqsUpTo(1..(MaxDim + 1), MaxRank), b \in SeqsUpTo(1..(MaxDim + 1), MaxRank) :
         net = [EmptyNetwork EXCEPT
                  !.tensors = <<[name |-> <<"a">>, shape |-> a, dtype |-> "trt.float32"],
                                [name |-> <<"b">>, shape |-> b, dtype |-> "trt.float32"]>>]
    /\ InitUtility

utilityFrame ==
    <<caller, pc, passThrough, given, samples, gm, mods, passes, it, env, injected, ip, bld>>

\* cast_trt_tensor(network, input_val, dtype, name) is called
CallCastTrtTensor ==
    /\ pc = "utility"
    /\ Len(log) < MaxUtilityCalls
    /\ \E input_val \in DOMAIN net.tensors, dtype \in TensorDtypes \cup {"torch.float32"} :
         LET r == cast_trt_tensor(net, input_val, dtype)
         IN /\ callargs' = [fn |-> "cast_trt_tensor", input_val |-> input_val, dtype |-> dtype]
            /\ net' = r.net
            /\ result' = Returns(r.ret, None)
            /\ log' = Append(log, Entry("cast_trt_tensor", 0, None))
    /\ UNCHANGED utilityFrame

\* aten_ops_div(network, target, args, kwargs, name) is called on the two
\* tensors or on one of them and a scalar
CallAtenOpsDiv ==
    /\ pc = "utility"
    /\ Len(log) < MaxUtilityCalls
    /\ \E arg0 \in 0..2, arg1 \in 0..2, rounding_mode \in {None, "floor", "trunc", "ceil"} :
         LET r == aten_ops_div(net, arg0, arg1, rounding_mode)
         IN /\ arg0 # 0 \/ arg1 # 0
            /\ callargs' = [fn |-> "aten_ops_div", input |-> arg0, other |-> arg1,
                             rounding_mode |-> rounding_mode]
            /\ net' = r.net
            /\ result' = Returns(r.ret, r.exc)
            /\ log' = Append(log, Entry("aten_ops_div", 0, r.exc))
    /\ UNCHANGED utilityFrame

\* broadcastable(a, b) is called
CallBroadcastable ==
    /\ pc = "utility"
    /\ log = <<>>
    /\ callargs' = [fn |-> "broadcastable", a |-> 1, b |-> 2]
    /\ result' = Returns(broadcastable(net.tensors[1].shape, net.tensors[2].shape), None)
    /\ log' = Append(log, Entry("broadcastable", 0, None))
    /\ UNCHANGED <<utilityFrame, net>>

\* casts and divisions requested by a converter
SpecDiv == InitDiv /\ [][CallCastTrtTensor \/ CallAtenOpsDiv]_vars

\* one call of broadcastable
SpecBroadcast == InitBroadcast /\ [][CallBroadcastable]_vars

(***************************************************************************)
(* impl/conv.py: convNd, called by aten_ops_convolution on a network of    *)
(* its own.  A weight or bias is a value of a kind: a network tensor (id), *)
(* a torch constant (shape), or None.                                      *)
(***************************************************************************)
TensorValue(id) == [kind |-> "tensor", id |-> id, shape |-> <<>>]
ConstValue(shape) == [kind |-> "const", id |-> 0, shape |-> shape]
NoneValue == [kind |-> "none", id |-> 0, shape |-> <<>>]

\* the network is created with the EXPLICIT_BATCH flag only
has_explicit_precision(network) == FALSE

\* extend_attr_to_tuple(val, num_elem): val is an int or a list
extend_attr_to_tuple(val, num_elem) ==
    IF val.tag # "list"
    THEN [i \in 1..num_elem |-> val.v[1]]
    ELSE IF Len(val.v) = 1
    THEN [i \in 1..num_elem |-> val.v[1]]
    ELSE val.v

\* impl.unsqueeze.unsqueeze(network, target, source_ir, name, input, -1)
unsqueeze(network, name, input_val) ==
    LET out == Len(network.tensors) + 1
    IN [net |-> [network EXCEPT
                   !.tensors = Append(@, [name |-> <<name, "output">>,
                                          shape |-> network.tensors[input_val].shape \o <<1>>,
                                          dtype |-> network.tensors[input_val].dtype]),
                   !.layers = Append(@, [type |-> "unsqueeze", inputs |-> <<input_val>>,
                                         output |-> out, dim |-> -1])],
        ret |-> out]

\* impl.squeeze.squeeze(network, target, source_ir, name, input, -1)
squeeze(network, name, input_val) ==
    LET out == Len(network.tensors) + 1
        shape == network.tensors[input_val].shape
    IN [net |-> [network EXCEPT
                   !.tensors = Append(@, [name |-> <<name, "output">>,
                                          shape |-> SubSeq(shape, 1, Len(shape) - 1),
                                          dtype |-> network.tensors[input_val].dtype]),
                   !.layers = Append(@, [type |-> "squeeze", inputs |-> <<input_val>>,
                                         output |-> out, dim |-> -1])],
        ret |-> out]

\* get_trt_tensor(network, value, name): a network tensor is returned as it
\* is, a constant becomes the output of a constant layer
get_trt_tensor(network, value, name) ==
    LET out == Len(network.tensors) + 1
    IN IF value.kind = "tensor"
       THEN [net |-> network, ret |-> value.id]
       ELSE [net |-> [network EXCEPT
                        !.tensors = Append(@, [name |-> <<name, "output">>,
                                               shape |-> value.shape,
                                               dtype |-> "trt.float32"]),
                        !.layers = Append(@, [type |-> "constant", inputs |-> <<>>,
                                              output |-> out])],
             ret |-> out]

\* the i-th entry of an attribute of the layer, d where it has none
AttrAt(q, i, d) == IF i \in DOMAIN q THEN q[i] ELSE d

\* conv_layer.get_output(0): the shape TensorRT gives the output of the layer
ConvOutputShape(in, num_output_maps, kernel_shape, padding, stride, dilation) ==
    <<in[1], num_output_maps>> \o
    [i \in 1..(Len(in) - 2) |->
        (in[i + 2] + 2 * AttrAt(padding, i, 0)
            - AttrAt(dilation, i, 1) * (AttrAt(kernel_shape, i, 1) - 1) - 1)
          \div AttrAt(stride, i, 1) + 1]

\* convNd(network, target, source_ir, name, is_conv1d, input, weight, bias,
\* stride, padding, dilation, groups); input is a network tensor; an input 0
\* of the layer is one that was not set
convNd(network, name, is_conv1d, input, weight, bias, stride, padding, dilation, groups) ==
    LET u == IF is_conv1d
             THEN unsqueeze(network, name \o "_unsqueeze_conv1d", input)
             ELSE [net |-> network, ret |-> input]
        bias_ok == bias.kind \in {"const", "tensor", "none"}
        as_tensor == has_explicit_precision(u.net) \/ weight.kind = "tensor"
        w == IF as_tensor
             THEN get_trt_tensor(u.net, weight, name \o "_weight")
             ELSE [net |-> u.net, ret |-> 0]
        \* line 66 assigns the unsqueezed weight to input
        uw == IF as_tensor /\ is_conv1d
              THEN unsqueeze(w.net, name \o "_unsqueeze_weight", w.ret)
              ELSE [net |-> w.net, ret |-> u.ret]
        weight_ok == as_tensor \/ weight.kind = "const"
        weight_shape == IF as_tensor THEN w.net.tensors[w.ret].shape
                        ELSE IF is_conv1d THEN weight.shape \o <<1>>
                        ELSE weight.shape
        padding_nd == IF is_conv1d THEN padding.v \o <<0>> ELSE padding.v
        stride_nd == IF is_conv1d THEN extend_attr_to_tuple(stride, 2) ELSE stride.v
        dilation_nd == IF is_conv1d THEN extend_attr_to_tuple(dilation, 2) ELSE dilation.v
        out == Len(uw.net.tensors) + 1
        kernel_shape == SubSeq(weight_shape, 3, Len(weight_shape))
        conv_layer == [type |-> "convolution",
                       inputs |-> <<uw.ret,
                                    IF as_tensor THEN w.ret ELSE 0,
                                    IF bias.kind = "tensor" THEN bias.id ELSE 0>>,
                       output |-> out,
                       num_output_maps |-> weight_shape[1],
                       kernel_shape |-> kernel_shape,
                       kernel |-> IF as_tensor THEN <<>> ELSE weight_shape,
                       bias |-> IF bias.kind = "const" THEN bias.shape ELSE <<>>,
                       padding_nd |-> padding_nd,
                       stride_nd |-> stride_nd,
                       dilation_nd |-> dilation_nd,
                       num_groups |-> groups]
        added == [uw.net EXCEPT
                    !.tensors = Append(@, [name |-> <<name, "output">>,
                                           shape |-> ConvOutputShape(
                                                         uw.net.tensors[uw.ret].shape,
                                                         weight_shape[1], kernel_shape,
                                                         padding_nd, stride_nd, dilation_nd),
                                           dtype |-> uw.net.tensors[uw.ret].dtype]),
                    !.layers = Append(@, conv_layer)]
    IN IF ~bias_ok THEN [net |-> u.net, ret |-> 0, exc |-> "RuntimeError"]
       ELSE IF ~weight_ok THEN [net |-> u.net, ret |-> 0, exc |-> "RuntimeError"]
       ELSE IF is_conv1d
       THEN LET s == squeeze(added, name \o "_squeeze_conv1d", out)
            IN [net |-> s.net, ret |-> s.ret, exc |-> None]
       ELSE [net |-> added, ret |-> out, exc |-> None]

\* the spatial sizes of the tensors convNd is called on
Spatial(n, size) == [i \in 1..n |-> size]

\* an input of MaxRank or fewer spatial axes, a weight and a bias tensor
InitConv ==
    /\ caller = "conv"
    /\ \E n \in 1..MaxRank, k \in 1..MaxDim :
         net = [EmptyNetwork EXCEPT
                  !.tensors = <<[name |-> <<"input">>,
                                 shape |-> <<1, 2>> \o Spatial(n, MaxDim + 1),
                                 dtype |-> "trt.float32"],
                                [name |-> <<"weight">>,
                                 shape |-> <<2, 2>> \o Spatial(n, k),
                                 dtype |-> "trt.float32"],
                                [name |-> <<"bias">>, shape |-> <<2>>,
                                 dtype |-> "trt.float32"]>>]
    /\ InitUtility

\* aten_ops_convolution(network, target, args, kwargs, name) is called on the
\* input, with the weight and the bias as network tensors or as constants
CallConvNd ==
    /\ pc = "utility"
    /\ log = <<>>
    /\ LET n == Len(net.tensors[1].shape) - 2
       IN \E weight \in {TensorValue(2), ConstValue(net.tensors[2].shape), NoneValue},
             bias \in {TensorValue(3), ConstValue(net.tensors[3].shape), NoneValue},
             stride \in [1..n -> 1..MaxDim], p \in 0..1, d \in 1..MaxDim :
            LET args == [fn |-> "convNd", input |-> 1, weight |-> weight, bias |-> bias,
                         stride |-> ListArg(stride), padding |-> ListArg(Spatial(n, p)),
                         dilation |-> ListArg(Spatial(n, d)), groups |-> 1]
                r == convNd(net, "conv", Len(args.stride.v) = 1, args.input, args.weight,
                            args.bias, args.stride, args.padding, args.dilation, args.groups)
            IN /\ callargs' = args
               /\ net' = r.net
               /\ result' = Returns(r.ret, r.exc)
               /\ log' = Append(log, Entry("convNd", 0, r.exc))
    /\ UNCHANGED utilityFrame

\* one convolution converted
SpecConv == InitConv /\ [][CallConvNd]_vars

(***************************************************************************)
(* lowering/passes/__init__.py called on its own: passes are added to the  *)
(* list, then the list is applied to a graph.                              *)
(***************************************************************************)
\* call nodes of an aten graph the lowering passes are called on
LoweringKinds ==
    { <<"call_function", "aten.relu.default">>,
      <<"call_function", CloneTarget>> }

InitPasses ==
    /\ caller = "passes"
    /\ pc = "utility"
    /\ passThrough = FALSE
    /\ given \in Graphs(LoweringKinds)
    /\ samples = <<>>
    /\ mods = [orig |-> given, aot |-> <<>>]
    /\ InitCommon

\* add_lowering_pass(lowering_pass) is called
AddLoweringPass ==
    /\ pc = "utility"
    /\ Len(passes) < Len(ATEN_LOWERING_PASSES) + MaxUtilityCalls
    /\ \E lowering_pass \in {"user.mark_a", "user.mark_b"} :
         /\ passes' = add_lowering_pass(passes, lowering_pass)
         /\ log' = Append(log, Entry("add_lowering_pass", lowering_pass, None))
    /\ UNCHANGED <<caller, pc, passThrough, given, samples, gm, mods, interpFrame, result>>

\* apply_lowering_passes(gm) is called on the module
CallApplyLoweringPasses ==
    /\ pc = "utility"
    /\ pc' = "done"
    /\ mods' = [mods EXCEPT ![gm] = apply_lowering_passes(mods[gm])]
    /\ result' = Returns(gm, None)
    /\ log' = Append(log, Entry("apply_lowering_passes", gm, None))
    /\ UNCHANGED <<caller, passThrough, given, samples, gm, passes, interpFrame>>

\* passes added to the list, then the list applied
SpecPasses == InitPasses /\ [][AddLoweringPass \/ CallApplyLoweringPasses]_vars

(***************************************************************************)
(* The lowering functions called on a graph of their own, one after the    *)
(* other: repair_input_aliasing, remove_input_alias_fixing_clones,         *)
(* apply_lowering_passes.                                                  *)
(***************************************************************************)
\* call j after n placeholders takes the node before it (a literal when
\* there is none) or the first placeholder
RECURSIVE ChainSeqs(_, _)
ChainSeqs(n, j) ==
    IF j = 0 THEN {<<>>}
    ELSE {c \o <<CallNode(n + j, k, <<a>>)>> :
            c \in ChainSeqs(n, j - 1), k \in LoweringKinds,
            a \in {n + j - 1} \cup (IF n >= 1 THEN {1} ELSE {})}

\* graphs of up to MaxPlaceholders placeholders and up to MaxChain relu and
\* clone nodes; the output returns one value, or the last node and one more
LoweringGraphs ==
    UNION {{[i \in 1..n |-> PlaceholderNode(i)] \o c \o <<OutputNode(n + m + 1, a)>> :
               c \in ChainSeqs(n, m), a \in OutputArgs(n + m)} :
           n \in 0..MaxPlaceholders, m \in 0..MaxChain}

InitLowering ==
    /\ caller = "lowering"
    /\ pc = "utility"
    /\ passThrough = FALSE
    /\ given \in LoweringGraphs
    /\ samples = <<>>
    /\ mods = [orig |-> given, aot |-> <<>>]
    /\ InitCommon

\* fn(gm) is called and leaves the graph after in the module; callargs keeps
\* the graph the module held when it was called
CallOnModule(fn, after) ==
    /\ pc \in {"utility", "again"}
    /\ pc' = IF pc = "utility" THEN "again" ELSE "done"
    /\ callargs' = [fn |-> fn, graph |-> mods[gm]]
    /\ mods' = [mods EXCEPT ![gm] = after]
    /\ result' = Returns(gm, None)
    /\ log' = Append(log, Entry(fn, gm, None))
    /\ UNCHANGED <<caller, passThrough, given, samples, gm, passes, it, net, env, injected, ip,
                   bld>>

CallRepairInputAliasing ==
    CallOnModule("repair_input_aliasing", repair_input_aliasing(mods[gm]))

CallRemoveInputAliasFixingClones ==
    CallOnModule("remove_input_alias_fixing_clones",
                 remove_input_alias_fixing_clones(mods[gm]))

CallLowering ==
    CallOnModule("apply_lowering_passes", apply_lowering_passes(mods[gm]))

\* two calls of the lowering functions on one module
SpecLowering == InitLowering /\ [][\/ CallRepairInputAliasing
                                  \/ CallRemoveInputAliasFixingClones
                                  \/ CallLowering]_vars

(***************************************************************************)
(* converter_utils.get_node_name, called on a node of its own.  The node's *)
(* meta is the set of its keys and, under nn_module_stack, the keys of     *)
(* that dict in insertion order.                                           *)
(***************************************************************************)

\* str(key).replace("___", "/"), then re.sub("^.*__self", "", .), then
\* re.sub(r"_(\d+)$", r"/\g<1>", .)
ModName(key) ==
    CASE key = "L__self___conv" -> "/conv"
      [] key = "L__self___layer1" -> "/layer1"
      [] key = "L__self___layer1_0" -> "/layer1/0"
      [] key = "L__self___layer1_1" -> "/layer1/1"

\* get_node_name(node): the name, and the node as the call leaves it
get_node_name(node) ==
    LET has_item == "nn_module_stack" \in node.meta.keys
        stack_item == node.meta.nn_module_stack
        node_name == node.target
    IN IF has_item /\ stack_item # <<>>
       THEN \* stack_item.popitem(): the last item, which leaves the dict
            LET last == stack_item[Len(stack_item)]
                rest == SubSeq(stack_item, 1, Len(stack_item) - 1)
            IN [node |-> [node EXCEPT !.meta.nn_module_stack = rest],
                ret |-> ModName(last) \o "/" \o node_name]
       ELSE [node |-> node, ret |-> node_name]

\* dicts of up to k items with the keys ks, as the sequence of their keys
RECURSIVE StacksUpTo(_, _)
StacksUpTo(ks, k) ==
    IF k = 0 THEN {<<>>}
    ELSE StacksUpTo(ks, k - 1)
         \cup {Append(q, key) : q \in StacksUpTo(ks, k - 1), key \in ks}

NodeWithMeta(target, keys, stack) ==
    [name |-> 1, op |-> "call_function", target |-> target, args |-> <<>>,
     meta |-> [keys |-> keys, nn_module_stack |-> stack]]

\* a node traced inside up to MaxRank nested modules, the keys of its
\* nn_module_stack as dynamo writes them, or a node without the entry
InitNodeName ==
    /\ caller = "get_node_name"
    /\ pc = "utility"
    /\ passThrough = FALSE
    /\ \E target \in {"relu", "clone"},
          stack \in {q \in StacksUpTo({"L__self___conv", "L__self___layer1",
                                       "L__self___layer1_0", "L__self___layer1_1"},
                                      MaxRank) :
                       \A i, j \in DOMAIN q : i # j => q[i] # q[j]} :
         \/ given = <<NodeWithMeta(target, {"nn_module_stack"}, stack)>>
         \/ stack = <<>> /\ given = <<NodeWithMeta(target, {}, stack)>>
    /\ samples = <<>>
    /\ mods = [orig |-> given, aot |-> <<>>]
    /\ InitCommon

\* get_node_name(node) is called on the node
CallGetNodeName ==
    /\ pc = "utility"
    /\ Len(log) <= MaxUtilityCalls
    /\ LET r == get_node_name(mods[gm][1])
       IN /\ callargs' = [fn |-> "get_node_name", node |-> 1]
          /\ mods' = [mods EXCEPT ![gm] = <<r.node>>]
          /\ result' = Returns(r.ret, None)
          /\ log' = Append(log, Entry("get_node_name", 1, None))
    /\ UNCHANGED <<caller, pc, passThrough, given, samples, gm, passes, it, net, env, injected,
                   ip, bld>>

\* successive calls of get_node_name on one node
SpecNodeName == InitNodeName /\ [][CallGetNodeName]_vars

(***************************************************************************)
(* Properties.                                                             *)
(***************************************************************************)
Last(q) == q[Len(q)]

\* the exception the invocation raised inside the try block, or None
RaisedInside == IF log = <<>> THEN None ELSE Last(log).exc

HandledKinds == {"AssertionError", "RuntimeError", "UnsupportedOperatorException"}

\* super().run() returned: every node of the graph was run without raising
Interpreted ==
    \E i \in DOMAIN log :
        /\ log[i].step = "run_node"
        /\ log[i].exc = None
        /\ NodeOf(Module, log[i].node).op = "output"

Range(q) == {q[i] : i \in DOMAIN q}

\* C1: when a step raises an AssertionError or a RuntimeError and
\* pass_through_build_failures is false, the module returned is the module
\* the caller passed in, holding the graph it held when it was passed in.
C1_FallbackIsGivenModule ==
    result.kind = "fallback" =>
        /\ result.module = "orig"
        /\ mods[result.module] = given

\* C2: when a step raises an AssertionError or a RuntimeError (including
\* UnsupportedOperatorException) and pass_through_build_failures is true, the
\* same exception reaches the caller and no module is returned.
C2_PassThroughReraises ==
    (caller = "driver" /\ passThrough /\ RaisedInside \in HandledKinds) =>
        /\ result.kind = "raised"
        /\ result.exc = RaisedInside
        /\ result.module = None

C2_Witness ==
    /\ caller = "driver"
    /\ passThrough
    /\ RaisedInside = "UnsupportedOperatorException"
    /\ result.kind = "raised"

\* C3: an exception that is neither an AssertionError nor a RuntimeError
\* reaches the caller whatever pass_through_build_failures is; the fallback
\* branch is not taken for it.
C3_OtherExceptionsPropagate ==
    (caller = "driver" /\ RaisedInside \notin HandledKinds \cup {None}) =>
        /\ result.kind = "raised"
        /\ result.exc = RaisedInside

C3_Witness ==
    /\ caller = "driver"
    /\ ~passThrough
    /\ RaisedInside = "TypeError"
    /\ result.kind = "raised"

\* C4: an invocation of the driver ends in exactly one of: the module
\* compile_module returned after the engine was built, the uncompiled graph
\* module, or a raised exception; a compile that failed part-way returns no
\* compiled module.
C4_ThreeOutcomes ==
    /\ pc # "done" => result.kind = "none"
    /\ pc = "done" => result.kind \in {"compiled", "fallback", "raised"}
    /\ result.kind = "compiled" =>
          /\ RaisedInside = None
          /\ Interpreted
          /\ bld.engine # None
          /\ result.module = "trt"
    /\ result.kind = "fallback" =>
          /\ RaisedInside # None
          /\ result.module \in {"orig", "aot"}
    /\ result.kind = "raised" =>
          /\ RaisedInside # None
          /\ result.module = None

C4_Witness ==
    /\ caller = "driver"
    /\ result.kind = "compiled"
    /\ bld.engine = "engine"

\* the steps of one compile, in the order the code states them
StepsInOrder ==
    [i \in 1..6 |->
        [step |-> <<"pre_aot_substitutions", "repair_input_aliasing",
                    "aot_export_joint_simple", "apply_lowering_passes",
                    "compile_module", "run">>[i],
         node |-> 0]]
    \o [i \in 1..Len(Module) |-> [step |-> "run_node", node |-> Module[i].name]]
    \o <<[step |-> "create_builder_config", node |-> 0],
         [step |-> "build_engine", node |-> 0]>>

\* C5: the steps of one compile run in the order aliasing repair, AOT export,
\* lowering, compile_module; inside run every node is run in graph order, the
\* output node last, before the builder config is created and the engine is
\* built; a step that raised is the last step that ran.
C5_StepsInOrder ==
    /\ Len(log) <= Len(StepsInOrder)
    /\ \A i \in DOMAIN log :
          /\ log[i].step = StepsInOrder[i].step
          /\ log[i].node = StepsInOrder[i].node
          /\ i < Len(log) => log[i].exc = None
          /\ log[i].step = "create_builder_config" =>
                NodeOf(Module, log[i - 1].node).op = "output"
    /\ RaisedInside # None => pc = "done"

C5_Witness ==
    /\ caller = "driver"
    /\ result.kind = "compiled"
    /\ NumPlaceholders(Module) >= 1
    /\ Len(Module) >= 3

\* the placeholders of the graph all have a static InputSpec
AllStatic ==
    \A i \in 1..NumPlaceholders(Module) :
        /\ i <= Len(it.input_specs)
        /\ it.input_specs[i].shape_mode = "STATIC"

DeclaredInput(i) == net.tensors[net.inputs[i]]

\* C6 as stated: with static InputSpecs only, after interpretation the network
\* has one input per placeholder, in placeholder order, the i-th with the
\* shape and dtype of the i-th InputSpec and the name of the i-th placeholder.
C6_InputsCarrySpecAndName ==
    (Interpreted /\ AllStatic) =>
        /\ Len(net.inputs) = NumPlaceholders(Module)
        /\ \A i \in DOMAIN net.inputs :
              /\ DeclaredInput(i).shape = it.input_specs[i].shape
              /\ DeclaredInput(i).dtype = unified_dtype_converter(it.input_specs[i].torch_dtype)
              /\ DeclaredInput(i).name = <<Placeholders(Module)[i].target>>

\* C6 amended: the same, the name and dtype for every input that the output
\* node does not return itself (output() renames and retypes what it returns).
C6_InputsCarrySpec ==
    (Interpreted /\ AllStatic) =>
        /\ Len(net.inputs) = NumPlaceholders(Module)
        /\ \A i \in DOMAIN net.inputs :
              /\ DeclaredInput(i).shape = it.input_specs[i].shape
              /\ net.inputs[i] \notin Range(net.outputs) =>
                    /\ DeclaredInput(i).dtype =
                           unified_dtype_converter(it.input_specs[i].torch_dtype)
                    /\ DeclaredInput(i).name = <<Placeholders(Module)[i].target>>

C6_Witness ==
    /\ Interpreted
    /\ AllStatic
    /\ NumPlaceholders(Module) >= 2
    /\ it.input_specs[1] # it.input_specs[2]
    /\ net.inputs[1] \notin Range(net.outputs)
    /\ net.inputs[2] \notin Range(net.outputs)

\* C7: when the number of InputSpecs differs from the number of placeholders,
\* interpretation fails and no engine is produced.
C7_CountMismatchFails ==
    (pc # "compile_module" /\ Len(it.input_specs) # NumPlaceholders(Module)) =>
        /\ bld.engine = None
        /\ result.kind # "interpreter_result"

\* C8: the network input declared for a dynamic InputSpec (min, opt, max of
\* equal rank) has on every axis the size min[i] when min[i] = opt[i] = max[i]
\* and -1 otherwise, and the profile holds (min, opt, max) under the
\* placeholder's name.
C8_DynamicAxes ==
    \A k \in DOMAIN net.inputs :
        LET cur == it.input_specs[k]
            target == Placeholders(Module)[k].target
        IN cur.shape_mode = "DYNAMIC" =>
              /\ Len(DeclaredInput(k).shape) = Len(cur.min_shape)
              /\ \A i \in DOMAIN cur.min_shape :
                    DeclaredInput(k).shape[i] =
                        IF cur.min_shape[i] = cur.opt_shape[i] /\ cur.opt_shape[i] = cur.max_shape[i]
                        THEN cur.min_shape[i]
                        ELSE -1
              /\ \E j \in DOMAIN it.profile :
                    it.profile[j] = [name |-> target, min |-> cur.min_shape,
                                     opt |-> cur.opt_shape, max |-> cur.max_shape]

C8_Witness ==
    \E k \in DOMAIN net.inputs :
        /\ it.input_specs[k].shape_mode = "DYNAMIC"
        /\ \E i, j \in DOMAIN DeclaredInput(k).shape :
              /\ DeclaredInput(k).shape[i] = -1
              /\ DeclaredInput(k).shape[j] = it.input_specs[k].min_shape[j]

\* C9: in one run at most one optimization profile is added to the builder
\* config, and one is added exactly when a network input was declared from a
\* dynamic InputSpec in that run.
C9_ProfileIffDynamicInput ==
    bld.config =>
        /\ bld.profiles <= 1
        /\ bld.profiles = 1 <=>
              \E k \in DOMAIN net.inputs : it.input_specs[k].shape_mode = "DYNAMIC"

\* C10: a call_function, call_method or call_module node whose operator has no
\* converter makes the run raise UnsupportedOperatorException naming it; it is
\* the last node run, and the builder is not invoked.
C10_UnsupportedOperatorRaises ==
    \A i \in DOMAIN log :
        (/\ log[i].step = "run_node"
         /\ NodeOf(Module, log[i].node).op \in {"call_function", "call_method", "call_module"}
         /\ UnsupportedName(NodeOf(Module, log[i].node)) \notin Registered) =>
            /\ i = Len(log)
            /\ log[i].exc = "UnsupportedOperatorException"
            /\ result.kind = "raised"
            /\ result.exc = "UnsupportedOperatorException"
            /\ result.about = UnsupportedName(NodeOf(Module, log[i].node))
            /\ pc = "done"
            /\ ~bld.config
            /\ bld.calls = 0

C10_Witness ==
    /\ result.exc = "UnsupportedOperatorException"
    /\ result.about = "torch.nn.LSTM"
    /\ ip < Len(Module)
    /\ bld.calls = 0

\* what the claim says of each validator: the node is rejected when ...
Rejected(node) ==
    CASE node.target = "aten.embedding.default" -> Len(node.argv) >= 4
      [] node.target = "aten._to_copy.default" ->
            \/ "dtype" \notin DOMAIN node.kwargs
            \/ node.kwargs["dtype"] \notin
                  {"torch.float32", "torch.int32", "torch.bool", "torch.int8", "torch.float16"}
      [] node.target = "aten.amax.default" -> Len(node.argv) < 2
      [] node.target = "aten.convolution.default" ->
            \/ node.argv[7] = BoolArg(TRUE)
            \/ \E k \in DOMAIN node.argv[8].v : node.argv[8].v[k] # 0
      [] OTHER -> FALSE

\* C11: a node of an identity registered with a validator is converted only
\* when the validator accepts it; when it rejects the node (embedding with
\* args 3 or 4 supplied, _to_copy without an allowed dtype kwarg, amax with
\* fewer than 2 args, convolution transposed or with non-zero output padding)
\* the run raises UnsupportedOperatorException at that node, and adds no layer.
C11_ValidatorGatesLookup ==
    \A i \in DOMAIN log :
        (log[i].step = "run_node" /\ NodeOf(Module, log[i].node).target \in ValidatedTargets) =>
            LET node == NodeOf(Module, log[i].node)
            IN /\ Rejected(node) <=> log[i].exc = "UnsupportedOperatorException"
               /\ Rejected(node) => net.layers = <<>> /\ result.about = node.target
               /\ log[i].exc = None => net.layers = <<node.name>>

C11_Witness ==
    /\ caller = "validators"
    /\ RaisedInside = "UnsupportedOperatorException"
    /\ Module[2].target = "aten.convolution.default"
    /\ Module[2].argv[7] = BoolArg(FALSE)
    /\ Module[2].argv[8] = ListArg(<<0, 1>>)

\* the output node of the graph, and the positions of the history at which it ran
OutNode == Module[Len(Module)]

OutputEntries ==
    {i \in DOMAIN log : log[i].step = "run_node" /\ log[i].node = OutNode.name}

\* the tensors the output node returns (0: a literal)
Returned == OutputValues(OutNode)

IsPositionalName(name) == \E j \in 0..(MaxOutputs + 1) : name = <<"output" \o ToString(j)>>

\* no tensor was renamed or marked as an output, and no output name was recorded
NothingMarked ==
    /\ net.outputs = <<>>
    /\ it.output_names = <<>>
    /\ \A t \in DOMAIN net.tensors : ~IsPositionalName(net.tensors[t].name)

\* C12: when an entry of the value the output node returns is not a network
\* tensor, the output step raises RuntimeError, and no tensor has been renamed
\* or marked as a network output and the output-name list is unchanged.
C12_NonTensorOutputFails ==
    \A i \in OutputEntries :
        (\E k \in DOMAIN OutNode.args : OutNode.args[k] = 0) =>
            /\ log[i].exc = "RuntimeError"
            /\ NothingMarked

C12_Witness ==
    /\ caller = "outputs"
    /\ OutputEntries # {}
    /\ RaisedInside = "RuntimeError"
    /\ ~it.has_output_dtypes
    /\ Len(OutNode.args) = 2
    /\ OutNode.args[1] # 0
    /\ OutNode.args[2] = 0

\* the output step is taken and returns
OutputStep ==
    /\ pc = "run_node"
    /\ ip < Len(Module)
    /\ CurNode.op = "output"
    /\ log' # log
    /\ Last(log').exc = None

\* the rule of the claim, on the tensor t as the output step finds it
FirstApplicableRule(t, i) ==
    LET tensor == net.tensors[t]
    IN IF \E k \in DOMAIN tensor.name : tensor.name[k] \in BoolFamily THEN "trt.bool"
       ELSE IF it.has_output_dtypes THEN unified_dtype_converter(it.output_dtypes[i])
       ELSE IF /\ callargs.precision = "torch.float16"
               /\ ~callargs.force_fp32_output
               /\ tensor.dtype = "trt.float32"
            THEN "trt.float16"
       ELSE tensor.dtype

ReturnedOnce(i) == \A j \in DOMAIN Returned : j # i => Returned[j] # Returned[i]

OperatorName(node) ==
    CASE node.target = "aten.isinf.default" -> <<"isinf">>
      [] node.target = "aten.relu.default" -> <<"relu">>
      [] OTHER -> <<>>

\* the node is an operator of the boolean family
FamilyOperator(node) ==
    /\ node.op \in {"call_function", "call_method", "call_module"}
    /\ \E k \in DOMAIN OperatorName(node) : OperatorName(node)[k] \in BoolFamily

\* C14: an output produced by an operator whose name contains one of eq, gt,
\* lt, and, or, xor, not, ne, isinf, any ends with boolean dtype whatever the
\* overrides and the precision are, and an output not produced by such an
\* operator is not forced to boolean.
C14_BoolFamilyAlwaysBool ==
    (caller = "outputs" /\ Interpreted) =>
        \A k \in DOMAIN Returned :
            LET producer == NodeOf(Module, OutNode.args[k])
                dtype == net.tensors[Returned[k]].dtype
            IN /\ FamilyOperator(producer) => dtype = "trt.bool"
               /\ ~FamilyOperator(producer) => dtype # "trt.bool"

\* C15: when an override list is given whose length differs from the number
\* of outputs, the output step raises RuntimeError (also when every output is
\* of the boolean family), and no output has been renamed or marked.
C15_OverrideCountMismatchFails ==
    \A i \in OutputEntries :
        (it.has_output_dtypes /\ Len(it.output_dtypes) # Len(OutNode.args)) =>
            /\ log[i].exc = "RuntimeError"
            /\ NothingMarked

C15_Witness ==
    /\ caller = "outputs"
    /\ OutputEntries # {}
    /\ RaisedInside = "RuntimeError"
    /\ OutNode.args = <<2, 2>>
    /\ IsBoolName(net.tensors[Returned[1]].name)
    /\ it.has_output_dtypes
    /\ Len(it.output_dtypes) = 1

\* the run returned a result
Succeeded == result.kind \in {"interpreter_result", "compiled"}

NamesAndMarks ==
    /\ it.input_names = [i \in 1..NumPlaceholders(Module) |-> Placeholders(Module)[i].target]
    /\ it.output_names = [i \in DOMAIN OutNode.args |-> "output" \o ToString(i - 1)]
    /\ net.outputs = Returned

\* C16 as stated: after a successful run input_names is the placeholder names
\* in graph order, output_names is output0 .. output(k-1), the outputs are
\* marked in that order and the tensor at every position carries the
\* positional name of that position.
C16_NamesEveryPosition ==
    (caller = "outputs" /\ Succeeded) =>
        /\ NamesAndMarks
        /\ \A i \in DOMAIN Returned :
              net.tensors[Returned[i]].name = <<"output" \o ToString(i - 1)>>

\* C16 amended: the same, a tensor carrying the positional name of the last
\* position it is returned at.
C16_NamesLastPosition ==
    (caller = "outputs" /\ Succeeded) =>
        /\ NamesAndMarks
        /\ \A i \in DOMAIN Returned :
              (\A j \in DOMAIN Returned : j > i => Returned[j] # Returned[i]) =>
                  net.tensors[Returned[i]].name = <<"output" \o ToString(i - 1)>>

C16_Witness ==
    /\ caller = "outputs"
    /\ Succeeded
    /\ OutNode.args = <<3, 1>>
    /\ it.output_names = <<"output0", "output1">>

\* a call of cast_trt_tensor is made
CastStep ==
    /\ pc = "utility"
    /\ log' # log
    /\ Last(log').step = "cast_trt_tensor"

\* C17: cast_trt_tensor on a tensor that already has the target dtype returns
\* the same handle and leaves the network as it is; on a tensor of another
\* dtype it adds exactly one identity layer over that tensor and returns the
\* layer's output, a new tensor of the target dtype (so that casting the
\* result to the same dtype again adds nothing).
C17_CastAddsNoRedundantLayer ==
    [][CastStep =>
         LET input_val == callargs'.input_val
             target == IF callargs'.dtype = "torch.float32" THEN "trt.float32"
                       ELSE callargs'.dtype
         IN IF net.tensors[input_val].dtype = target
            THEN /\ result'.value = input_val
                 /\ net' = net
            ELSE /\ Len(net'.layers) = Len(net.layers) + 1
                 /\ \A k \in DOMAIN net.layers : net'.layers[k] = net.layers[k]
                 /\ Last(net'.layers) = [type |-> "identity", inputs |-> <<input_val>>,
                                         output |-> result'.value]
                 /\ result'.value \notin DOMAIN net.tensors
                 /\ net'.tensors[result'.value].dtype = target]_vars

C17_Witness ==
    /\ caller = "div"
    /\ Len(log) = 2
    /\ log[1].step = "cast_trt_tensor"
    /\ log[2].step = "cast_trt_tensor"
    /\ callargs.input_val = 3
    /\ callargs.dtype = "trt.float32"
    /\ net.tensors[1].dtype = "trt.int32"
    /\ net.layers = <<[type |-> "identity", inputs |-> <<1>>, output |-> 3]>>
    /\ result.value = 3

\* the shapes right-aligned: the k-th axes from the right are compatible
RightAligned(a, b) ==
    \A k \in 1..Len(a) :
        k <= Len(b) =>
            LET x == a[Len(a) - k + 1]
                y == b[Len(b) - k + 1]
            IN x = y \/ x = 1 \/ y = 1

\* C18: broadcastable(a, b) is true exactly when, the shapes right-aligned and
\* the shorter one padded with 1s on the left, every axis pair is equal or has
\* a member equal to 1; and broadcastable(a, b) = broadcastable(b, a).
C18_BroadcastableIffRightAligned ==
    (caller = "broadcastable" /\ log # <<>>) =>
        LET a == net.tensors[callargs.a].shape
            b == net.tensors[callargs.b].shape
        IN /\ result.value <=> RightAligned(a, b)
           /\ result.value <=> broadcastable(b, a)

C18_Witness ==
    /\ caller = "broadcastable"
    /\ log # <<>>
    /\ net.tensors[1].shape = <<3>>
    /\ net.tensors[2].shape = <<2, 3>>
    /\ result.value = TRUE

\* the last call was aten_ops_div on two network tensors, and it returned
DivOfTensors ==
    /\ caller = "div"
    /\ log # <<>>
    /\ Last(log).step = "aten_ops_div"
    /\ Last(log).exc = None
    /\ callargs.input # 0
    /\ callargs.other # 0

IsInt8Or32(t) == net.tensors[t].dtype \in {"trt.int8", "trt.int32"}

\* t is the output of an identity layer over orig, of dtype float32
FloatCastOf(t, orig) ==
    /\ net.tensors[t].dtype = "trt.float32"
    /\ \E k \in DOMAIN net.layers :
          net.layers[k] = [type |-> "identity", inputs |-> <<orig>>, output |-> t]

\* C19: for a true division of two network tensors of which at least one is
\* int8 or int32, the division is emitted over two float32 operands, every
\* integer operand replaced by its identity cast.
C19_EitherIntCastsBoth ==
    (/\ DivOfTensors
     /\ callargs.rounding_mode = None
     /\ IsInt8Or32(callargs.input) \/ IsInt8Or32(callargs.other)) =>
        LET division == Last(net.layers)
        IN /\ division.type = "div"
           /\ \A k \in 1..2 : net.tensors[division.inputs[k]].dtype = "trt.float32"
           /\ IsInt8Or32(callargs.input) => FloatCastOf(division.inputs[1], callargs.input)
           /\ IsInt8Or32(callargs.other) => FloatCastOf(division.inputs[2], callargs.other)

\* C20: for a division of two network tensors that are both int8 or int32,
\* with rounding mode none, floor or trunc, the division is emitted over the
\* float32 casts of the operands, not over the integer tensors.
C20_BothIntDivisionTakesCasts ==
    (/\ DivOfTensors
     /\ callargs.rounding_mode \in {None, "floor", "trunc"}
     /\ IsInt8Or32(callargs.input)
     /\ IsInt8Or32(callargs.other)) =>
        LET division == Last(net.layers)
        IN /\ division.type \in {"div", "floor_div", "trunc_div"}
           /\ FloatCastOf(division.inputs[1], callargs.input)
           /\ FloatCastOf(division.inputs[2], callargs.other)

\* the call of convNd that was made, on a 1-D convolution without exception
Conv1dDone ==
    /\ caller = "conv"
    /\ log # <<>>
    /\ Len(callargs.stride.v) = 1
    /\ Last(log).exc = None

\* tensor t is the output of an unsqueeze of tensor src on the last axis
UnsqueezedFrom(t, src) ==
    /\ \E k \in DOMAIN net.layers :
          net.layers[k] = [type |-> "unsqueeze", inputs |-> <<src>>, output |-> t, dim |-> -1]
    /\ net.tensors[t].shape = net.tensors[src].shape \o <<1>>

\* the convolution layer convNd added
ConvLayer == CHOOSE k \in DOMAIN net.layers : net.layers[k].type = "convolution"

\* C21: for a 1-D convolution the layer's data input is the input unsqueezed
\* by one trailing unit axis and its kernel is the weight unsqueezed by one
\* trailing unit axis, for constant and for network-tensor weights; padding,
\* stride and dilation are length-2 tuples whose first entry is the original
\* value; the value returned is the layer's output squeezed on the last axis.
C21_Conv1dRunsAsConv2d ==
    Conv1dDone =>
        LET conv == net.layers[ConvLayer]
        IN /\ UnsqueezedFrom(conv.inputs[1], callargs.input)
           /\ IF callargs.weight.kind = "tensor"
              THEN UnsqueezedFrom(conv.inputs[2], callargs.weight.id)
              ELSE conv.kernel = callargs.weight.shape \o <<1>>
           /\ \A attr \in {<<conv.padding_nd, callargs.padding>>,
                           <<conv.stride_nd, callargs.stride>>,
                           <<conv.dilation_nd, callargs.dilation>>} :
                 Len(attr[1]) = 2 /\ attr[1][1] = attr[2].v[1]
           /\ Last(net.layers) = [type |-> "squeeze", inputs |-> <<conv.output>>,
                                  output |-> result.value, dim |-> -1]

\* the passes add_lowering_pass was called with, in the order of the calls
AddedPasses ==
    LET adds == SelectSeq(log, LAMBDA e : e.step = "add_lowering_pass")
    IN [i \in DOMAIN adds |-> adds[i].node]

\* the added passes ps applied one after the other to g
RECURSIVE ThenUserPasses(_, _)
ThenUserPasses(g, ps) ==
    IF ps = <<>> THEN g ELSE ThenUserPasses(UserPass(Head(ps), g), Tail(ps))

\* C22: the list holds alias-clone removal, constant folding, input/output
\* repair in this order, followed by every added pass in the order added
\* (adding never reorders or removes a pass), and apply_lowering_passes gives
\* the graph these passes produce when each runs on the result of the one
\* before.
C22_PassesRunInListOrder ==
    caller = "passes" =>
        /\ passes = <<"remove_input_alias_fixing_clones", "constant_fold",
                      "repair_input_as_output">> \o AddedPasses
        /\ pc = "done" =>
              mods[gm] = ThenUserPasses(
                             repair_input_as_output(
                                 constant_fold(remove_input_alias_fixing_clones(given))),
                             AddedPasses)

C22_Witness ==
    /\ caller = "passes"
    /\ pc = "done"
    /\ Len(AddedPasses) = 2
    /\ AddedPasses[1] # AddedPasses[2]
    /\ remove_input_alias_fixing_clones(given) # given
    /\ repair_input_as_output(remove_input_alias_fixing_clones(given))
          # remove_input_alias_fixing_clones(given)

\* the steps called so far
Steps == [i \in DOMAIN log |-> log[i].step]

\* what node nm of g computes, written out down to the placeholders: the
\* operation and what each node it consumes computes
RECURSIVE Computes(_, _)
Computes(g, nm) ==
    IF nm = 0
    THEN [op |-> "literal", target |-> "0", args |-> <<>>]
    ELSE LET n == NodeOf(g, nm)
         IN [op |-> n.op, target |-> n.target,
             args |-> [k \in DOMAIN n.args |-> Computes(g, n.args[k])]]

\* the structure of a graph: how many nodes compute each thing, whatever the
\* nodes are called and wherever they stand
Structure(g) ==
    LET what == {Computes(g, nm) : nm \in Names(g)}
    IN [w \in what |-> Cardinality({nm \in Names(g) : Computes(g, nm) = w})]

\* C23: lowering a graph the pipeline has already lowered leaves its nodes and
\* edges as they are, for every graph, a placeholder's only consumer being a
\* clone included.
C23_LoweringIdempotent ==
    (caller = "lowering" /\ Steps = <<"apply_lowering_passes", "apply_lowering_passes">>) =>
        Structure(mods[gm]) = Structure(callargs.graph)

\* C24: in one run build_engine is invoked at most once, not at all when
\* interpretation failed and exactly once when it succeeded; when it yields no
\* engine the run fails with an AssertionError at that step, without a second
\* attempt and without a result, and the driver re-raises it when
\* pass_through_build_failures is set and returns the uncompiled module
\* otherwise.
C24_BuildEngineOnce ==
    caller = "driver" =>
        /\ bld.calls <= 1
        /\ ~Interpreted => bld.calls = 0
        /\ (pc = "done" /\ Interpreted) => bld.calls = 1
        /\ (bld.calls = 1 /\ bld.engine = None) =>
              /\ Last(log) = Entry("build_engine", 0, "AssertionError")
              /\ pc = "done"
              /\ IF passThrough
                 THEN result = Raised("AssertionError", result.about)
                 ELSE result.kind = "fallback" /\ result.exc = None

C24_Witness ==
    /\ caller = "driver"
    /\ Interpreted
    /\ bld.calls = 1
    /\ bld.engine = None
    /\ ~passThrough
    /\ result.kind = "fallback"

\* the graph before and after the last call, which was a call of fn
JustCalled(fn) == caller = "lowering" /\ log # <<>> /\ Last(log).step = fn

Before == callargs.graph

After == mods[gm]

\* C26: after repair_input_aliasing every placeholder has exactly one
\* consumer, a clone placed directly after it, and every node that consumed
\* the placeholder before, the output node included, consumes that clone.
C26_EveryPlaceholderCloned ==
    JustCalled("repair_input_aliasing") =>
        \A i \in DOMAIN After :
            After[i].op = "placeholder" =>
                LET p == After[i].name
                    clone == After[i + 1]
                IN /\ Users(After, p) = {clone.name}
                   /\ clone.op = "call_function"
                   /\ clone.target = CloneTarget
                   /\ clone.args = <<p>>
                   /\ clone.name \notin Names(Before)
                   /\ \A u \in Users(Before, p) :
                         /\ clone.name \in Range(NodeOf(After, u).args)
                         /\ NodeOf(After, u).args =
                               [k \in DOMAIN NodeOf(Before, u).args |->
                                   LET a == NodeOf(Before, u).args[k]
                                   IN IF a # 0 /\ NodeOf(Before, a).op = "placeholder"
                                      THEN After[IndexOf(After, a) + 1].name
                                      ELSE a]

C26_Witness ==
    /\ JustCalled("repair_input_aliasing")
    /\ NumPlaceholders(Before) = 2
    /\ Users(Before, 1) = {}
    /\ Cardinality(Users(Before, 2)) = 2
    /\ \E u \in Users(Before, 2) : NodeOf(Before, u).op = "output"

\* repair_input_aliasing was called on the given graph, then
\* remove_input_alias_fixing_clones on its result
RoundTrip ==
    /\ caller = "lowering"
    /\ Steps = <<"repair_input_aliasing", "remove_input_alias_fixing_clones">>

\* C25 as stated: for every graph, repair_input_aliasing followed by
\* remove_input_alias_fixing_clones gives a graph with the nodes and the
\* producer-consumer edges of the graph it started from.
C25_RemoveUndoesRepairEveryGraph ==
    RoundTrip => After = given

\* C25 amended: the same for every graph in which every call node has a
\* consumer; in a graph with a placeholder, call nodes without a consumer are
\* erased on the way, and the rest of the graph is as it was.
C25_RemoveUndoesRepair ==
    RoundTrip =>
        /\ Dead(given) = {} => After = given
        /\ After = IF NumPlaceholders(given) = 0 THEN given ELSE eliminate_dead_code(given)

C25_Witness ==
    /\ RoundTrip
    /\ Dead(given) = {}
    /\ NumPlaceholders(given) = 2
    /\ Users(given, 1) = {}
    /\ Cardinality(Users(given, 2)) = 2
    /\ \E u \in Users(given, 2) : NodeOf(given, u).op = "output"
    /\ After = given
    /\ Before # given

\* remove_input_alias_fixing_clones cannot apply to the graph it was called on
CannotApply ==
    \A i \in DOMAIN Before : ~OnlyUserIsClone(Before, Before[i].name)

\* the clones of the graph before whose placeholder has another consumer
SharedClones ==
    {nm \in Names(Before) :
        LET c == NodeOf(Before, nm)
        IN /\ c.target = CloneTarget
           /\ c.args # <<0>>
           /\ NodeOf(Before, c.args[1]).op = "placeholder"
           /\ Cardinality(Users(Before, c.args[1])) >= 2}

\* C27 as stated: when no placeholder has exactly one consumer that is a
\* clone, remove_input_alias_fixing_clones returns the graph as it was; and
\* it never removes a clone whose placeholder has another consumer.
C27_NoChangeAndSharedClonesStay ==
    JustCalled("remove_input_alias_fixing_clones") =>
        /\ CannotApply => After = Before
        /\ \A c \in SharedClones : c \in Names(After)

\* C27 amended: the same, except that a clone whose placeholder has another
\* consumer is erased when nothing consumes what it computes and the pass
\* removed the clone of another placeholder (dead-code elimination); a clone
\* that stays keeps its placeholder as argument.
C27_NoChangeAndUsedSharedClonesStay ==
    JustCalled("remove_input_alias_fixing_clones") =>
        /\ CannotApply => After = Before
        /\ \A c \in SharedClones :
              IF c \in Names(After)
              THEN NodeOf(After, c) = NodeOf(Before, c)
              ELSE ~CannotApply /\ c \notin Names(eliminate_dead_code(Before))

C27_Witness ==
    /\ JustCalled("remove_input_alias_fixing_clones")
    /\ CannotApply
    /\ SharedClones # {}
    /\ Dead(Before) # {}
    /\ After = Before

\* C28: after run_node finished on a node, the key _itensor_to_tensor_meta is
\* absent from the node's kwargs, when the converter returned and when the
\* converter or the lookup raised.
C28_KwargsRestored ==
    \A i \in DOMAIN log :
        log[i].step = "run_node" => log[i].node \notin injected

\* C29: every result run returns has one entry of input_names per
\* placeholder and one entry of output_names per output, also when run is
\* called again on the same interpreter.
C29_NamesPerRun ==
    result.kind = "interpreter_result" =>
        /\ Len(it.input_names) = NumPlaceholders(Module)
        /\ Len(it.output_names) = Len(OutNode.args)

\* C30: a call of get_node_name leaves the node's metadata (the
\* nn_module_stack entry) as it was, and a call that follows another on the
\* same node returns the name the one before returned.
C30_GetNodeNamePure ==
    [][CallGetNodeName =>
          /\ mods' = mods
          /\ log # <<>> => result'.value = result.value]_vars

====
